---- MODULE Spec2Model ----
(***************************************************************************)
(* Retrieval subsystem of the contract assistant: app/rag/vectorstore.py   *)
(* (embedding gateway, Qdrant adapter, ClauseEmbedding persistence),       *)
(* app/rag/retriever.py (tiered retrieval, fusion, context, citations) and *)
(* the chat entry point app/routers/chat.py + app/services/chat_service.py *)
(*                                                                         *)
(* Conventions                                                             *)
(*  - similarity and lexical scores are integers in units of 1e-4          *)
(*    (10000 = 1.0); fused scores are integers in units of 1e-6;           *)
(*  - uuids are small integers; None is the integer NoId where an optional *)
(*    uuid is meant;                                                       *)
(*  - a text is the record [blank, tokens]: whether text.strip() is empty  *)
(*    and the set _tokenize(text) would return;                            *)
(*  - the Qdrant server is outside the program: its answers to search are  *)
(*    arbitrary point lists, its requests may fail.                        *)
(***************************************************************************)
EXTENDS Integers, Sequences, FiniteSets, TLC

VARIABLES
    documents,          \* table documents: set of [id, owner_id, status]
    clauses,            \* table clauses: set of [id, document_id, tokens]
    analyses,           \* table clause_analysis: set of [clause_id, risk_level, summary]
    embeddings,         \* table clause_embeddings: set of rows
    nextRowId,          \* source of fresh ClauseEmbedding.id / created_at values
    qdrantClient,       \* module global _QDRANT_CLIENT (NoClient or a handle)
    qdrantImportFailed, \* module global _QDRANT_IMPORT_FAILED
    ensuredCollections, \* module global _ENSURED_COLLECTIONS
    indexedFields,      \* module global _INDEXED_FIELDS
    qdrantImported,     \* sys.modules holds qdrant_client (an import that succeeded once)
    qdrant,             \* the Qdrant server: [exists, size, payloadIndexes, points]
    clientHistory,      \* history: [failed: an attempt to build the client failed, built: handles built]
    call,               \* the call just made and what it returned; Idle between calls
    threads             \* the calls running concurrently: thread -> [pc and locals]

vars == <<documents, clauses, analyses, embeddings, nextRowId, qdrantClient,
          qdrantImportFailed, ensuredCollections, indexedFields, qdrantImported,
          qdrant, clientHistory, call, threads>>

dbVars == <<documents, clauses, analyses>>
globalVars == <<qdrantClient, qdrantImportFailed, ensuredCollections, indexedFields,
                qdrantImported, qdrant, clientHistory>>

(***************************************************************************)
(* Bounds of the model                                                     *)
(***************************************************************************)
NClauses == 4
NDocs == 3
MaxTopK == 2
MaxHits == 2
MaxUpsertClause == 2
\* the items of an analyzer's answer
MaxNewClauses == 2
\* the handlers that can draw fresh ids are called while the next id is at
\* most this one
MaxRowId == 6
\* the calls that run concurrently
NThreads == 2
\* the row limit that stands for MAX_VECTOR_CANDIDATES in the calls of the
\* fallback search where the limit is to cut rows off
ScaledRowLimit == 2

(***************************************************************************)
(* Program constants                                                       *)
(***************************************************************************)
MAX_CLAUSES == 50
MAX_VECTOR_CANDIDATES == 500
DEFAULT_CANDIDATE_K == 30
DEFAULT_TOP_K == 6
DEFAULT_MIN_SIMILARITY == 3500
ChatMaxTopK == 20
ScoreOne == 10000

DEFAULT_QDRANT_COLLECTION == "readgye_clause_embeddings"
PayloadIndexCacheKey == "readgye_clause_embeddings:payload_indexes"
NoAnalyzedData == "no analyzed data yet"

NoId == 0
NoClient == 0
Users == {"A", "B"}
DocIds == 1..NDocs
ClauseIds == 1..NClauses
Idle == [op |-> "idle"]
\* no call runs concurrently with the call in progress
NoThreads == <<>>

(***************************************************************************)
(* Small helpers                                                           *)
(***************************************************************************)
Max(a, b) == IF a >= b THEN a ELSE b
Min(a, b) == IF a <= b THEN a ELSE b

Take(s, n) == IF Len(s) <= n THEN s ELSE SubSeq(s, 1, n)

RECURSIVE InsertDesc(_, _)
\* insert x after every element whose score is >= x.score: what a stable
\* descending sort does with a later element
InsertDesc(sorted, x) ==
    IF sorted = <<>> THEN <<x>>
    ELSE IF Head(sorted).score >= x.score
         THEN <<Head(sorted)>> \o InsertDesc(Tail(sorted), x)
         ELSE <<x>> \o sorted

RECURSIVE InsertBeforeTies(_, _)
InsertBeforeTies(sorted, x) ==
    IF sorted = <<>> THEN <<x>>
    ELSE IF Head(sorted).score > x.score
         THEN <<Head(sorted)>> \o InsertBeforeTies(Tail(sorted), x)
         ELSE <<x>> \o sorted

RECURSIVE SortDescTiesReversed(_)
\* faulty variant: a descending sort that puts the later of two equal
\* elements first
SortDescTiesReversed(s) ==
    IF s = <<>> THEN <<>>
    ELSE InsertBeforeTies(SortDescTiesReversed(SubSeq(s, 1, Len(s) - 1)), s[Len(s)])

RECURSIVE SortDesc(_)
\* list.sort(key=score, reverse=True): stable, descending
SortDesc(s) ==
    IF s = <<>> THEN <<>>
    ELSE InsertDesc(SortDesc(SubSeq(s, 1, Len(s) - 1)), s[Len(s)])

(***************************************************************************)
(* app/rag/vectorstore.py: the Qdrant adapter                              *)
(*                                                                         *)
(* The operators below are the functions of the module as state            *)
(* transformers over the record g of the module globals and the server:    *)
(*   g = [client, importFailed, ensured, indexed, imported, qdrant, hist]  *)
(* e  is what building the client would meet in this call:                 *)
(*    "import_error" | "construct_error" | "ok"                            *)
(* r  says which requests to the server succeed in this call:              *)
(*    [list, create, index, op : BOOLEAN]                                  *)
(* QDRANT_TIMEOUT is taken to hold a number (its default is "5").          *)
(***************************************************************************)
ClientEnvs == {"import_error", "construct_error", "ok"}

RemoteUp == [list |-> TRUE, create |-> TRUE, index |-> TRUE, op |-> TRUE]
RemoteDown == [list |-> FALSE, create |-> FALSE, index |-> FALSE, op |-> FALSE]
RemoteBehaviours ==
    { RemoteUp, RemoteDown,
      [RemoteUp EXCEPT !.list = FALSE],
      [RemoteUp EXCEPT !.create = FALSE],
      [RemoteUp EXCEPT !.index = FALSE],
      [RemoteUp EXCEPT !.op = FALSE] }

NoCollection == [exists |-> FALSE, size |-> 0, payloadIndexes |-> {}, points |-> {}]

Globals ==
    [client |-> qdrantClient, importFailed |-> qdrantImportFailed,
     ensured |-> ensuredCollections, indexed |-> indexedFields,
     imported |-> qdrantImported, qdrant |-> qdrant, hist |-> clientHistory]

\* _get_qdrant_collection_name(): QDRANT_COLLECTION is unset
GetQdrantCollectionName == DEFAULT_QDRANT_COLLECTION

\* _get_qdrant_client(): [g |-> globals after, ret |-> handle or NoClient,
\*                        attempted |-> the call tried to import or construct]
GetQdrantClient(g, e) ==
    IF g.client # NoClient THEN
        [g |-> g, ret |-> g.client, attempted |-> FALSE]
    ELSE IF g.importFailed THEN
        [g |-> g, ret |-> NoClient, attempted |-> FALSE]
    ELSE IF ~g.imported /\ e = "import_error" THEN
        [g |-> [g EXCEPT !.importFailed = TRUE, !.hist.failed = TRUE],
         ret |-> NoClient, attempted |-> TRUE]
    ELSE IF e = "construct_error" THEN
        [g |-> [g EXCEPT !.imported = TRUE, !.hist.failed = TRUE],
         ret |-> NoClient, attempted |-> TRUE]
    ELSE
        LET handle == g.hist.built + 1
        IN [g |-> [g EXCEPT !.imported = TRUE, !.client = handle,
                            !.hist.built = handle],
            ret |-> handle, attempted |-> TRUE]

\* _ensure_payload_indexes(collection): the client is cached when this runs
EnsurePayloadIndexes(g, collection, r) ==
    IF g.client = NoClient THEN g
    ELSE IF PayloadIndexCacheKey \in g.indexed THEN g
    ELSE LET created == IF r.index /\ g.qdrant.exists
                        THEN {"user_id", "document_id"} ELSE {}
         IN [g EXCEPT !.qdrant.payloadIndexes = @ \cup created,
                      !.indexed = @ \cup {PayloadIndexCacheKey}]

\* faulty variant: a collection of another vector size is made over
EnsureQdrantCollectionResizing(g, vector_size, r) ==
    IF g.client = NoClient \/ vector_size <= 0 THEN g
    ELSE IF GetQdrantCollectionName \in g.ensured /\ g.qdrant.size = vector_size THEN g
    ELSE IF ~r.list THEN g
    ELSE [g EXCEPT !.qdrant.exists = TRUE, !.qdrant.size = vector_size,
                   !.qdrant.points = IF g.qdrant.size = vector_size THEN @ ELSE {},
                   !.ensured = @ \cup {GetQdrantCollectionName}]

\* faulty variant: the collection is recorded as ensured although
\* get_collections or create_collection failed
EnsureQdrantCollectionNotingFailure(g, vector_size, r) ==
    IF g.client = NoClient \/ vector_size <= 0 THEN g
    ELSE IF GetQdrantCollectionName \in g.ensured THEN g
    ELSE LET noted == [g EXCEPT !.ensured = @ \cup {GetQdrantCollectionName}]
         IN IF ~r.list THEN noted
            ELSE IF ~g.qdrant.exists /\ ~r.create THEN noted
            ELSE EnsurePayloadIndexes(
                     [noted EXCEPT !.qdrant.exists = TRUE,
                                   !.qdrant.size = IF g.qdrant.exists THEN @
                                                   ELSE vector_size],
                     GetQdrantCollectionName, r)

\* the requests _ensure_qdrant_collection(vector_size) sends to the server,
\* those of _ensure_payload_indexes included
EnsureRequests(g, vector_size, r) ==
    IF g.client = NoClient \/ vector_size <= 0 THEN <<>>
    ELSE IF GetQdrantCollectionName \in g.ensured THEN <<>>
    ELSE IF ~r.list THEN <<"get_collections">>
    ELSE IF ~g.qdrant.exists /\ ~r.create THEN <<"get_collections", "create_collection">>
    ELSE <<"get_collections">>
            \o (IF g.qdrant.exists THEN <<>> ELSE <<"create_collection">>)
            \o (IF PayloadIndexCacheKey \in g.indexed THEN <<>>
                ELSE <<"create_payload_index", "create_payload_index">>)

\* _ensure_qdrant_collection(vector_size): the client is cached when this runs
EnsureQdrantCollection(g, vector_size, r) ==
    IF g.client = NoClient \/ vector_size <= 0 THEN g
    ELSE IF GetQdrantCollectionName \in g.ensured THEN g
    ELSE IF ~r.list THEN g
    ELSE IF ~g.qdrant.exists /\ ~r.create THEN g
    ELSE LET made == IF g.qdrant.exists THEN g
                     ELSE [g EXCEPT !.qdrant.exists = TRUE,
                                    !.qdrant.size = vector_size]
             noted == [made EXCEPT !.ensured = @ \cup {GetQdrantCollectionName}]
         IN EnsurePayloadIndexes(noted, GetQdrantCollectionName, r)

\* whether the server accepts a search or an upsert of a vector of this size
ServerAccepts(g, size, r) ==
    r.op /\ g.qdrant.exists /\ g.qdrant.size = size

\* the loop over the points the server returned: a point whose clause id is
\* no uuid is skipped
RECURSIVE PointsToResults(_)
PointsToResults(points) ==
    IF points = <<>> THEN <<>>
    ELSE LET p == Head(points)
         IN (IF p.clause_id < 0 THEN <<>>
             ELSE <<[clause_id |-> p.clause_id, score |-> p.score]>>)
            \o PointsToResults(Tail(points))

\* client.search(...) / client.upsert(...): the request raises unless the
\* server accepts it
ClientRequestRaises(g, size, r) == ~ServerAccepts(g, size, r)

\* faulty variant: the failure of the search request reaches the caller
SearchErrorPropagates(g) ==
    [g |-> g, hits |-> <<>>, raised |-> TRUE, status |-> "search_error"]

\* the except branch of search_similar_clauses (logger.error, return [])
SearchErrorResult(g) ==
    [g |-> g, hits |-> <<>>, raised |-> FALSE, status |-> "search_error"]

\* search_similar_clauses(): [g, hits, raised, status]; answer is what the
\* server returns to the search when it accepts it; status tells how the
\* call ended: "no_client", "search_error" or "ok"
SearchSimilarClauses(g, query_embedding, e, r, answer) ==
    LET got == GetQdrantClient(g, e)
    IN IF got.ret = NoClient \/ query_embedding = <<>> THEN
           [g |-> got.g, hits |-> <<>>, raised |-> FALSE,
            status |-> IF got.ret = NoClient THEN "no_client" ELSE "ok"]
       ELSE LET g2 == EnsureQdrantCollection(got.g, Len(query_embedding), r)
            IN IF ClientRequestRaises(g2, Len(query_embedding), r)
               THEN SearchErrorResult(g2)
               ELSE [g |-> g2, hits |-> PointsToResults(answer), raised |-> FALSE,
                     status |-> "ok"]

\* faulty variant: the failure of the upsert request reaches the caller
UpsertErrorPropagates(g) == [g |-> g, raised |-> TRUE, status |-> "upsert_error"]

\* the except branch of _upsert_qdrant_clause (logger.error)
UpsertErrorResult(g) == [g |-> g, raised |-> FALSE, status |-> "upsert_error"]

\* _upsert_qdrant_clause(): [g, raised, status]
UpsertQdrantClause(g, clause_id, embedding, e, r) ==
    LET got == GetQdrantClient(g, e)
    IN IF got.ret = NoClient \/ embedding = <<>> THEN
           [g |-> got.g, raised |-> FALSE,
            status |-> IF got.ret = NoClient THEN "no_client" ELSE "ok"]
       ELSE LET g2 == EnsureQdrantCollection(got.g, Len(embedding), r)
            IN IF ClientRequestRaises(g2, Len(embedding), r)
               THEN UpsertErrorResult(g2)
               ELSE [g |-> [g2 EXCEPT !.qdrant.points = @ \cup {clause_id}],
                     raised |-> FALSE, status |-> "ok"]

\* create_query_embedding(text): p is the provider's answer, [raised, vector];
\* a blank text never reaches the provider
CreateQueryEmbedding(text, p) ==
    IF text.blank THEN [raised |-> FALSE, vector |-> <<>>]
    ELSE IF p.raised THEN [raised |-> TRUE, vector |-> <<>>]
    ELSE [raised |-> FALSE, vector |-> p.vector]

(***************************************************************************)
(* app/rag/retriever.py                                                    *)
(***************************************************************************)
RECURSIVE Dot(_, _)
Dot(a, b) == IF a = <<>> THEN 0 ELSE Head(a) * Head(b) + Dot(Tail(a), Tail(b))

\* math.sqrt on the sums of squares the model's vectors have (perfect squares)
ISqrt(n) == CHOOSE k \in 0..n : k * k <= n /\ (k + 1) * (k + 1) > n

\* _cosine_similarity(a, b), in units of 1e-4
CosineSimilarity(a, b) ==
    IF a = <<>> \/ b = <<>> \/ Len(a) # Len(b) THEN -ScoreOne
    ELSE LET norm_a == ISqrt(Dot(a, a))
             norm_b == ISqrt(Dot(b, b))
         IN IF norm_a = 0 \/ norm_b = 0 THEN -ScoreOne
            ELSE (Dot(a, b) * ScoreOne) \div (norm_a * norm_b)

\* _lexical_score(query_text, row), in units of 1e-4; row.tokens is
\* _tokenize of the row's number, title, summary, suggestion and body[:500]
LexicalScore(query_text, row) ==
    IF query_text.tokens = {} THEN 0
    ELSE IF row.tokens = {} THEN 0
    ELSE (Cardinality(query_text.tokens \cap row.tokens) * ScoreOne)
            \div Max(Cardinality(query_text.tokens), 1)

\* faulty variant: the risk level is not read
RiskBoostIgnored(risk_level) == 0

\* _risk_boost(risk_level), in units of 1e-6
RiskBoost(risk_level) ==
    IF risk_level = "HIGH" THEN 50000
    ELSE IF risk_level = "MEDIUM" THEN 20000
    ELSE 0

\* round(score, 4) of a fused score: 1e-6 units to 1e-4 units
Round4(score) == (score + 50) \div 100

\* the join Clause x ClauseAnalysis x Document with the filters on the
\* document's owner and status
JoinedRowsOf(owners, statuses) ==
    UNION { { [clause_id |-> c.id, document_id |-> d.id,
               risk_level |-> a.risk_level, tokens |-> c.tokens] :
                a \in { x \in analyses : x.clause_id = c.id },
                d \in { y \in documents : /\ y.id = c.document_id
                                          /\ y.owner_id \in owners
                                          /\ y.status \in statuses } } :
            c \in clauses }

\* faulty variants of the two filters: one reads the rows of every owner,
\* the other the rows of documents in every status
JoinedRowsOfAnyOwner(user_id) == JoinedRowsOf(Users, {"done"})
JoinedRowsInAnyStatus(user_id) == JoinedRowsOf({user_id}, {"done", "uploaded"})

\* .filter(Document.owner_id == user_id).filter(Document.status == "done"):
\* the rows both relational queries of the retriever read
JoinedRows(user_id) == JoinedRowsOf({user_id}, {"done"})

RECURSIVE RowsInOrder(_, _)
\* the rows of S as the store returns them: newest document first when
\* byDocument, and in clause id order otherwise
RowsInOrder(S, byDocument) ==
    IF S = {} THEN <<>>
    ELSE LET first == CHOOSE x \in S : \A y \in S :
                        IF byDocument /\ x.document_id # y.document_id
                        THEN x.document_id > y.document_id
                        ELSE x.clause_id <= y.clause_id
         IN <<first>> \o RowsInOrder(S \ {first}, byDocument)

SentinelPart == [kind |-> NoAnalyzedData, document_id |-> NoId, clause_id |-> NoId]

RECURSIVE FormatPartsOneHeader(_, _)
\* faulty variant: a header before the first row only
FormatPartsOneHeader(rows, current_doc) ==
    IF rows = <<>> THEN <<>>
    ELSE LET row == Head(rows)
             header == IF current_doc = NoId
                       THEN <<[kind |-> "header", document_id |-> row.document_id,
                               clause_id |-> NoId]>>
                       ELSE <<>>
         IN header
            \o <<[kind |-> "block", document_id |-> row.document_id,
                  clause_id |-> row.clause_id]>>
            \o FormatPartsOneHeader(Tail(rows), row.document_id)

RECURSIVE FormatParts(_, _)
\* the loop of _format_context_rows: a header part when the document
\* differs from current_doc, then the clause block
FormatParts(rows, current_doc) ==
    IF rows = <<>> THEN <<>>
    ELSE LET row == Head(rows)
             header == IF current_doc # row.document_id
                       THEN <<[kind |-> "header", document_id |-> row.document_id,
                               clause_id |-> NoId]>>
                       ELSE <<>>
         IN header
            \o <<[kind |-> "block", document_id |-> row.document_id,
                  clause_id |-> row.clause_id]>>
            \o FormatParts(Tail(rows), row.document_id)

\* _format_context_rows(rows): the parts that are joined into the context
FormatContextRows(rows) ==
    IF rows = <<>> THEN <<SentinelPart>> ELSE FormatParts(rows, NoId)

\* build_contract_context(db, user_id, document_id) (clause_ids is never passed)
BuildContractContext(user_id, document_id) ==
    LET rows == { x \in JoinedRows(user_id) :
                    document_id # NoId => x.document_id = document_id }
    IN FormatContextRows(Take(RowsInOrder(rows, TRUE), MAX_CLAUSES))

\* json.dumps(embedding) / json.loads(item.embedding_json).  The column is
\* free text: beside a list of numbers it may hold text that does not parse
\* ("malformed"), null, an object, or a list of strings ("list_of_text",
\* of which items keeps the length only)
JsonDumps(vector) == [kind |-> "list", items |-> vector]
JsonLoadsRaises(json) == json.kind = "malformed"
JsonLoadsIsList(json) == json.kind \in {"list", "list_of_text"}
JsonLoads(json) == json.items

\* x * y of line 47 raises TypeError for a float and a string; it is
\* reached only when both lists are non-empty and of one length
ProductRaises(query_embedding, json) ==
    /\ json.kind = "list_of_text"
    /\ query_embedding # <<>>
    /\ json.items # <<>>
    /\ Len(query_embedding) = Len(json.items)

RECURSIVE EmbeddingsNewestFirst(_)
\* order_by(ClauseEmbedding.created_at.desc())
EmbeddingsNewestFirst(S) ==
    IF S = {} THEN <<>>
    ELSE LET first == CHOOSE x \in S : \A y \in S : x.created_at >= y.created_at
         IN <<first>> \o EmbeddingsNewestFirst(S \ {first})

RECURSIVE ScoreCandidatesUnfiltered(_, _, _)
\* faulty variant: the similarity is not compared with min_similarity
ScoreCandidatesUnfiltered(candidates, query_embedding, min_similarity) ==
    IF candidates = <<>> THEN <<>>
    ELSE LET item == Head(candidates)
             rest == ScoreCandidatesUnfiltered(Tail(candidates), query_embedding,
                                               min_similarity)
         IN IF JsonLoadsRaises(item.embedding_json) THEN rest
            ELSE IF ~JsonLoadsIsList(item.embedding_json) THEN rest
            ELSE IF ProductRaises(query_embedding, item.embedding_json) THEN rest
            ELSE <<[clause_id |-> item.clause_id,
                    score |-> CosineSimilarity(query_embedding,
                                               JsonLoads(item.embedding_json))]>>
                 \o rest

RECURSIVE ScoreCandidates(_, _, _)
\* the scoring loop of _fallback_bruteforce_search: a row whose text does
\* not parse or whose product raises is logged and skipped (except
\* Exception), a row that does not load as a list is skipped
ScoreCandidates(candidates, query_embedding, min_similarity) ==
    IF candidates = <<>> THEN <<>>
    ELSE LET item == Head(candidates)
             rest == ScoreCandidates(Tail(candidates), query_embedding, min_similarity)
         IN IF JsonLoadsRaises(item.embedding_json) THEN rest
            ELSE IF ~JsonLoadsIsList(item.embedding_json) THEN rest
            ELSE IF ProductRaises(query_embedding, item.embedding_json) THEN rest
            ELSE LET sim == CosineSimilarity(query_embedding, JsonLoads(item.embedding_json))
                 IN IF sim >= min_similarity
                    THEN <<[clause_id |-> item.clause_id, score |-> sim]>> \o rest
                    ELSE rest

\* faulty variant: every row of the owner is scored, however old
FallbackSearchEveryRow(row_limit, user_id, query_embedding, document_id, candidate_k, min_similarity) ==
    LET rows == { x \in embeddings :
                    /\ x.user_id = user_id
                    /\ document_id # NoId => x.document_id = document_id }
    IN Take(SortDesc(ScoreCandidates(EmbeddingsNewestFirst(rows), query_embedding,
                                     min_similarity)),
            Max(candidate_k, 1))

\* the body of _fallback_bruteforce_search with .limit(row_limit)
FallbackSearchWithin(row_limit, user_id, query_embedding, document_id, candidate_k, min_similarity) ==
    LET rows == { x \in embeddings :
                    /\ x.user_id = user_id
                    /\ document_id # NoId => x.document_id = document_id }
        candidates == Take(EmbeddingsNewestFirst(rows), row_limit)
    IN IF candidates = <<>> THEN <<>>
       ELSE Take(SortDesc(ScoreCandidates(candidates, query_embedding, min_similarity)),
                 Max(candidate_k, 1))

\* _fallback_bruteforce_search(...): the limit is MAX_VECTOR_CANDIDATES
FallbackBruteforceSearch(user_id, query_embedding, document_id, candidate_k, min_similarity) ==
    FallbackSearchWithin(MAX_VECTOR_CANDIDATES, user_id, query_embedding, document_id,
                         candidate_k, min_similarity)

\* _fetch_rows_for_clause_ids(...): clause_ids is a set here, the query
\* uses it in an IN filter only
FetchRowsForClauseIds(user_id, clause_ids, document_id) ==
    IF clause_ids = {} THEN <<>>
    ELSE RowsInOrder({ x \in JoinedRows(user_id) :
                         /\ x.clause_id \in clause_ids
                         /\ document_id # NoId => x.document_id = document_id },
                     FALSE)

\* vector_score_map.get(clause.id, 0.0): a dict built from the hits, so the
\* last hit of a clause id wins
RECURSIVE VectorScore(_, _)
VectorScore(vector_hits, clause_id) ==
    IF vector_hits = <<>> THEN 0
    ELSE LET last == vector_hits[Len(vector_hits)]
         IN IF last.clause_id = clause_id THEN last.score
            ELSE VectorScore(SubSeq(vector_hits, 1, Len(vector_hits) - 1), clause_id)

\* the fused score of one fetched row, in units of 1e-6
FusedScore(row, vector_hits, query_text, use_rerank) ==
    LET v_score == VectorScore(vector_hits, row.clause_id)
    IN IF use_rerank
       THEN 75 * v_score + 20 * LexicalScore(query_text, row) + RiskBoost(row.risk_level)
       ELSE 100 * v_score

\* ranked_rows before and after ranked_rows.sort(...)
RankRows(rows, vector_hits, query_text, use_rerank) ==
    SortDesc([i \in 1..Len(rows) |->
                [score |-> FusedScore(rows[i], vector_hits, query_text, use_rerank),
                 row |-> rows[i]]])

\* the Citation of one ranked row
CitationOf(ranked) ==
    [clause_id |-> ranked.row.clause_id, document_id |-> ranked.row.document_id,
     risk_level |-> ranked.row.risk_level, score |-> Round4(ranked.score)]

NotQueried == [queried |-> FALSE]

\* faulty variants: a fallback that is always consulted, and a row fetch
\* whose empty answer goes on to the ranking
TierOneTakenAsEmpty(vector_hits) == TRUE
NoRowsOverlooked(rows) == FALSE

\* the tests of retrieve_relevant_context on its way (lines 220, 233, 243, 257)
QueryVectorEmpty(query_embedding) == query_embedding = <<>>
TierOneEmpty(vector_hits) == vector_hits = <<>>
NoVectorHits(vector_hits) == vector_hits = <<>>
NoRows(rows) == rows = <<>>

\* faulty variant: every ranked row is cited
CitedRowsUntruncated(ranked_rows, top_k) == ranked_rows

\* ranked_rows[: max(top_k, 1)], for the context and for the citations
SelectedRows(ranked_rows, top_k) == Take(ranked_rows, Max(top_k, 1))
CitedRows(ranked_rows, top_k) == Take(ranked_rows, Max(top_k, 1))

\* a call of retrieve_relevant_context that raises at the given stage
Raised(g, trace, tier1) ==
    [g |-> g, raised |-> TRUE, context |-> <<>>, citations |-> <<>>,
     trace |-> trace \o <<"RAISED">>, tier1 |-> tier1, tier2 |-> NotQueried,
     query_dim |-> 0, candidates |-> {}, fetched |-> 0, vector_hits |-> <<>>]

\* what a call of retrieve_relevant_context that ends in the unranked
\* context returns
Unranked(g, user_id, document_id, trace, tier1, tier2, query_embedding, candidates) ==
    [g |-> g, raised |-> FALSE,
     context |-> BuildContractContext(user_id, document_id),
     citations |-> <<>>, trace |-> trace \o <<"UNRANKED">>,
     tier1 |-> tier1, tier2 |-> tier2, query_dim |-> Len(query_embedding),
     candidates |-> candidates, fetched |-> 0, vector_hits |-> <<>>]

\* retrieve_relevant_context from the ranking on (lines 263-292)
RankedResult(g, top_k, tier1, tier2, stages, query_embedding, vector_hits, clause_ids, rows, ranked_rows) ==
    LET selected == SelectedRows(ranked_rows, top_k)
        selected_rows == [i \in 1..Len(selected) |-> selected[i].row]
        cited == CitedRows(ranked_rows, top_k)
    IN [g |-> g, raised |-> FALSE,
        context |-> FormatContextRows(selected_rows),
        citations |-> [i \in 1..Len(cited) |-> CitationOf(cited[i])],
        trace |-> stages \o <<"FETCH_ROWS", "FUSE_RANK", "FORMAT", "DONE">>,
        tier1 |-> tier1, tier2 |-> tier2, query_dim |-> Len(query_embedding),
        candidates |-> clause_ids, fetched |-> Len(rows), vector_hits |-> vector_hits]

\* retrieve_relevant_context from the fetched rows on (lines 257-292)
FromRows(g, user_id, query_text, document_id, top_k, use_rerank, tier1, tier2, stages, query_embedding, vector_hits, clause_ids, rows) ==
    IF NoRows(rows) THEN
        Unranked(g, user_id, document_id, stages \o <<"FETCH_ROWS">>, tier1, tier2,
                 query_embedding, clause_ids)
    ELSE RankedResult(g, top_k, tier1, tier2, stages, query_embedding, vector_hits,
                      clause_ids, rows,
                      RankRows(rows, vector_hits, query_text, use_rerank))

\* retrieve_relevant_context from the candidates of the two tiers on
\* (lines 243-292)
FromHits(g, user_id, query_text, document_id, top_k, use_rerank, tier1, tier2, stages, query_embedding, vector_hits) ==
    IF NoVectorHits(vector_hits) THEN
        Unranked(g, user_id, document_id, stages, tier1, tier2, query_embedding, {})
    ELSE LET clause_ids == { vector_hits[i].clause_id : i \in 1..Len(vector_hits) }
         IN FromRows(g, user_id, query_text, document_id, top_k, use_rerank, tier1,
                     tier2, stages, query_embedding, vector_hits, clause_ids,
                     FetchRowsForClauseIds(user_id, clause_ids, document_id))

\* the request record of a tier: what it was asked and how many candidates
\* it returned
TierRequest(user_id, document_id, limit, threshold, hits, status) ==
    [queried |-> TRUE, user_id |-> user_id, document_id |-> document_id,
     limit |-> limit, threshold |-> threshold, found |-> Len(hits), status |-> status]

\* retrieve_relevant_context from the fallback on (lines 233-292): fallback
\* is the answer of _fallback_bruteforce_search, read only when tier 1 is empty
FromSearch(user_id, query_text, document_id, top_k, min_similarity, candidate_k, use_rerank, query_embedding, searched, fallback) ==
    LET tier1 == TierRequest(user_id, document_id, Max(Max(candidate_k, 1), 1),
                             min_similarity, searched.hits, searched.status)
    IN IF searched.raised THEN Raised(searched.g, <<"EMBED", "SEARCH_INDEX">>, tier1)
       ELSE IF TierOneEmpty(searched.hits) THEN
           FromHits(searched.g, user_id, query_text, document_id, top_k, use_rerank,
                    tier1,
                    TierRequest(user_id, document_id, Max(candidate_k, 1),
                                min_similarity, fallback, "ok"),
                    <<"EMBED", "SEARCH_INDEX", "SEARCH_FALLBACK">>,
                    query_embedding, fallback)
       ELSE
           FromHits(searched.g, user_id, query_text, document_id, top_k, use_rerank,
                    tier1, NotQueried, <<"EMBED", "SEARCH_INDEX">>,
                    query_embedding, searched.hits)

\* retrieve_relevant_context from the query vector on (lines 220-292)
FromEmbedding(g, user_id, query_text, document_id, top_k, min_similarity, candidate_k, use_rerank, emb, e, r, answer) ==
    IF emb.raised THEN Raised(g, <<"EMBED">>, NotQueried)
    ELSE IF QueryVectorEmpty(emb.vector) THEN
        Unranked(g, user_id, document_id, <<"EMBED">>, NotQueried, NotQueried,
                 emb.vector, {})
    ELSE FromSearch(user_id, query_text, document_id, top_k, min_similarity,
                    candidate_k, use_rerank, emb.vector,
                    SearchSimilarClauses(g, emb.vector, e, r, answer),
                    FallbackBruteforceSearch(user_id, emb.vector, document_id,
                                             candidate_k, min_similarity))

\* retrieve_relevant_context(...): p, e, r, answer are what the embedding
\* provider, the client construction and the Qdrant server do in this call.
\* Beside context and citations the result carries what the call did: the
\* stages passed (trace), the requests made to the two tiers and how many
\* candidates each returned (tier1, tier2), the candidate ids handed to the
\* row fetch, the number of rows fetched and the hits the ranking read.
RetrieveRelevantContext(g, user_id, query_text, document_id, top_k, min_similarity, candidate_k, use_rerank, p, e, r, answer) ==
    FromEmbedding(g, user_id, query_text, document_id, top_k, min_similarity,
                  candidate_k, use_rerank, CreateQueryEmbedding(query_text, p),
                  e, r, answer)

(***************************************************************************)
(* The relational store and the inputs of the model                        *)
(***************************************************************************)
Statuses == {"done", "uploaded"}
RiskLevels == <<"HIGH", "MEDIUM", "LOW">>

\* Document 1 is A's and holds clause 1; the other documents are B's; the
\* last document holds the last clause and the clauses between are dealt
\* over the documents between
ClauseDocument(c) ==
    IF c = 1 THEN 1
    ELSE IF c = NClauses THEN NDocs
    ELSE ((c - 2) % (NDocs - 2)) + 2
DocumentOwner(d) == IF d = 1 THEN "A" ELSE "B"
ClauseRisk(c) == RiskLevels[(c % 3) + 1]
ClauseTokens(c) == IF c % 2 = 1 THEN {"t1"} ELSE {"t2"}
\* the vectors the embedding provider gave for the stored clauses
StoredVectors == <<(<<3, 4>>), (<<1, 0>>), (<<0, 1>>), (<<4, 3>>)>>
StoredVector(c) == StoredVectors[((c - 1) % 4) + 1]

EmbeddingRow(c, row_id) ==
    [id |-> row_id, clause_id |-> c, user_id |-> DocumentOwner(ClauseDocument(c)),
     document_id |-> ClauseDocument(c), embedding_json |-> JsonDumps(StoredVector(c)),
     created_at |-> row_id]

BlankText == [blank |-> TRUE, tokens |-> {}]
QueryTexts == {BlankText, [blank |-> FALSE, tokens |-> {"t1"}]}
QueryVectors == {<<1, 0>>, <<3, 4>>}
TopKs == 0..MaxTopK
MinSimilarities == {DEFAULT_MIN_SIMILARITY, -ScoreOne}
CandidateKs == {0, DEFAULT_CANDIDATE_K}
DocumentScopes == {NoId} \cup DocIds

\* ids a point of the server may carry: a clause, a uuid of no clause
\* (StaleId), or a payload that is no uuid (BadId)
StaleId == NClauses + 1
BadId == -1
CandidateIds == ClauseIds \cup {StaleId, BadId}
HitScores == {6000, 9000}

RECURSIVE SeqsOver(_, _)
\* the ascending id sequences of at most n points over ids
SeqsOver(ids, n) ==
    IF n = 0 \/ ids = {} THEN {<<>>}
    ELSE LET m == CHOOSE x \in ids : \A y \in ids : x <= y
             rest == SeqsOver(ids \ {m}, n)
             shorter == SeqsOver(ids \ {m}, n - 1)
         IN rest \cup { <<[clause_id |-> m, score |-> sc]>> \o t :
                          sc \in HitScores, t \in shorter }

IndexAnswers == SeqsOver(CandidateIds, MaxHits)

\* what the index side does in one call: every way of building the client
\* and of failing requests (the answer is then never read), and every
\* answer of a server that is up
IndexFailures ==
    { [e |-> e, r |-> RemoteUp, answer |-> <<>>] : e \in ClientEnvs \ {"ok"} }
        \cup { [e |-> "ok", r |-> r, answer |-> <<>>] : r \in RemoteBehaviours }
IndexAnswering ==
    { [e |-> "ok", r |-> RemoteUp, answer |-> a] : a \in IndexAnswers \ {<<>>} }

DefaultQueryVector == <<1, 0>>
WorkingProvider == [raised |-> FALSE, vector |-> DefaultQueryVector]
SomeText == [blank |-> FALSE, tokens |-> {"t1"}]
FailingProvider == [raised |-> TRUE, vector |-> <<>>]
\* a text that shares no word with any clause
OtherText == [blank |-> FALSE, tokens |-> {"t3"}]
QuietIndex == [e |-> "ok", r |-> RemoteUp, answer |-> <<>>]

\* the arguments and the environment of one retrieval call
RetrievalInput(u, t, d, k, m, ck, rr, p, ix) ==
    [user_id |-> u, query_text |-> t, document_id |-> d, top_k |-> k,
     min_similarity |-> m, candidate_k |-> ck, use_rerank |-> rr, p |-> p, ix |-> ix]

InitGlobals ==
    /\ qdrantClient = NoClient
    /\ qdrantImportFailed = FALSE
    /\ ensuredCollections = {}
    /\ indexedFields = {}
    /\ qdrantImported = FALSE
    /\ qdrant = NoCollection
    /\ clientHistory = [failed |-> FALSE, built |-> 0]

\* the documents after they were ingested: A's document is "done" or not,
\* the last document is not, every clause is analyzed
InitDocuments ==
    /\ \E first \in Statuses :
          documents = { [id |-> d, owner_id |-> DocumentOwner(d),
                         status |-> IF d = 1 THEN first
                                    ELSE IF d = NDocs THEN "uploaded"
                                    ELSE "done"] : d \in DocIds }
    /\ clauses = { [id |-> c, document_id |-> ClauseDocument(c),
                    tokens |-> ClauseTokens(c)] : c \in ClauseIds }
    /\ analyses = { [clause_id |-> c, risk_level |-> ClauseRisk(c)] : c \in ClauseIds }

\* the store in which every clause is embedded
InitStore ==
    /\ InitDocuments
    /\ embeddings = { EmbeddingRow(c, c) : c \in ClauseIds }
    /\ nextRowId = NClauses + 1

Init == InitStore /\ InitGlobals /\ call = Idle /\ threads = NoThreads

SetGlobals(g) ==
    /\ qdrantClient' = g.client
    /\ qdrantImportFailed' = g.importFailed
    /\ ensuredCollections' = g.ensured
    /\ indexedFields' = g.indexed
    /\ qdrantImported' = g.imported
    /\ qdrant' = g.qdrant
    /\ clientHistory' = g.hist

\* the fields of a retrieval result a caller (and the properties) can see
RetrievalRecord(res) ==
    [raised |-> res.raised, context |-> res.context, citations |-> res.citations,
     trace |-> res.trace, tier1 |-> res.tier1, tier2 |-> res.tier2,
     query_dim |-> res.query_dim, candidates |-> res.candidates,
     fetched |-> res.fetched, vector_hits |-> res.vector_hits]

(***************************************************************************)
(* Actions                                                                 *)
(***************************************************************************)
\* a call of retrieve_relevant_context with the arguments and environment in
RetrieveCall(in) ==
    \E res \in { RetrieveRelevantContext(Globals, in.user_id, in.query_text,
                                        in.document_id, in.top_k, in.min_similarity,
                                        in.candidate_k, in.use_rerank,
                                        in.p, in.ix.e, in.ix.r, in.ix.answer) } :
       /\ SetGlobals(res.g)
       /\ call' = [op |-> "retrieve", user_id |-> in.user_id,
                   document_id |-> in.document_id, top_k |-> in.top_k,
                   use_rerank |-> in.use_rerank, query_text |-> in.query_text,
                   provider_vector |-> in.p.vector,
                   retrieval |-> RetrievalRecord(res)]

\* A call of retrieve_relevant_context.  Parameters a branch never reads
\* are held at their defaults in that branch:
\*  - no query vector (blank text, provider failure): only owner and scope;
\*  - tier 1 answers: min_similarity, candidate_k and the query vector are
\*    not read by the program again;
\*  - tier 1 answers a text that shares no word with any clause: the
\*    ranking is left to the vector scores and the risk levels;
\*  - tier 1 gives nothing: every parameter is free.
Retrieve ==
    /\ call = Idle
    /\ \/ \E u \in Users, d \in DocumentScopes, t \in QueryTexts,
             p \in {WorkingProvider, FailingProvider} :
             RetrieveCall(RetrievalInput(u, t, d, DEFAULT_TOP_K, DEFAULT_MIN_SIMILARITY,
                                         DEFAULT_CANDIDATE_K, TRUE, p, QuietIndex))
       \/ \E u \in Users, d \in DocumentScopes, k \in TopKs, rr \in BOOLEAN,
             ix \in IndexAnswering :
             RetrieveCall(RetrievalInput(u, SomeText, d, k, DEFAULT_MIN_SIMILARITY,
                                         DEFAULT_CANDIDATE_K, rr, WorkingProvider, ix))
       \/ \E u \in Users, rr \in BOOLEAN, ix \in IndexAnswering :
             RetrieveCall(RetrievalInput(u, OtherText, NoId, DEFAULT_TOP_K,
                                         DEFAULT_MIN_SIMILARITY, DEFAULT_CANDIDATE_K,
                                         rr, WorkingProvider, ix))
       \/ \E u \in Users, d \in DocumentScopes, k \in TopKs, rr \in BOOLEAN,
             m \in MinSimilarities, ck \in CandidateKs, v \in QueryVectors,
             ix \in IndexFailures :
             RetrieveCall(RetrievalInput(u, SomeText, d, k, m, ck, rr,
                                         [raised |-> FALSE, vector |-> v], ix))
    /\ UNCHANGED <<dbVars, embeddings, nextRowId>>
    /\ UNCHANGED threads

\* Optional request fields are <<>> (absent) or <<value>>
OrElse(optional, default) == IF optional = <<>> THEN default ELSE optional[1]

NoRetrieval ==
    [raised |-> FALSE, context |-> <<>>, citations |-> <<>>, trace |-> <<>>,
     tier1 |-> NotQueried, tier2 |-> NotQueried, query_dim |-> 0,
     candidates |-> {}, fetched |-> 0, vector_hits |-> <<>>]

\* POST /api/chat: send_message with chat_with_context inlined.  req is the
\* request, gen whether the completion call succeeds.  The chat session and
\* message rows the handler writes are not part of the model.
\* Result: [g, status, retrieved, generation, top_k, document_id, retrieval]
SendMessageResult(g, current_user, req, p, e, r, answer, gen) ==
    LET rejected(status) ==
            [g |-> g, status |-> status, retrieved |-> FALSE,
             generation |-> "not_invoked", top_k |-> 0, retrieval |-> NoRetrieval]
    IN IF req.message.blank THEN rejected(400)
       ELSE IF /\ req.document_id # NoId
               /\ ~\E d \in documents : /\ d.id = req.document_id
                                       /\ d.owner_id = current_user
            THEN rejected(404)
       ELSE
       LET top_k == OrElse(req.top_k, DEFAULT_TOP_K)
           min_similarity == OrElse(req.min_similarity, DEFAULT_MIN_SIMILARITY)
           use_rerank == OrElse(req.use_rerank, TRUE)
           clamped_k == Max(1, Min(top_k, ChatMaxTopK))
           res == RetrieveRelevantContext(g, current_user, req.message, req.document_id,
                                          clamped_k,
                                          Max(-ScoreOne, Min(min_similarity, ScoreOne)),
                                          DEFAULT_CANDIDATE_K, use_rerank, p, e, r, answer)
       IN IF res.raised THEN
              [g |-> res.g, status |-> 500, retrieved |-> TRUE,
               generation |-> "not_invoked", top_k |-> clamped_k,
               retrieval |-> RetrievalRecord(res)]
          ELSE
              [g |-> res.g, status |-> IF gen THEN 200 ELSE 500, retrieved |-> TRUE,
               generation |-> IF gen THEN "answered" ELSE "failed",
               top_k |-> clamped_k, retrieval |-> RetrievalRecord(res)]

ChatTopKs == {<<>>, <<0>>, <<ChatMaxTopK + 1>>}
ChatMinSimilarities == {<<>>, <<-2 * ScoreOne>>}
ChatRerank == {<<>>, <<FALSE>>}
\* in a chat request the index fails in every way, or answers with one point
ChatIndexBehaviours ==
    IndexFailures
        \cup { [e |-> "ok", r |-> RemoteUp,
                answer |-> <<[clause_id |-> c, score |-> 9000]>>] : c \in CandidateIds }
PlainRequest(t, d) ==
    [message |-> t, document_id |-> d, top_k |-> <<>>, min_similarity |-> <<>>,
     use_rerank |-> <<>>]

\* The requests and the environment of one chat call: every request with
\* plain parameters against a failing provider or a failing completion, and
\* every parameter against every index behaviour when both work.
ChatInputs ==
    { [user |-> u, req |-> PlainRequest(t, d), p |-> p, ix |-> QuietIndex, gen |-> gen] :
        u \in Users, t \in QueryTexts, d \in DocumentScopes,
        p \in {WorkingProvider, FailingProvider}, gen \in BOOLEAN }
    \cup
    { [user |-> u,
       req |-> [message |-> SomeText, document_id |-> d, top_k |-> k,
                min_similarity |-> m, use_rerank |-> rr],
       p |-> WorkingProvider, ix |-> ix, gen |-> TRUE] :
        u \in Users, d \in DocumentScopes, k \in ChatTopKs,
        m \in ChatMinSimilarities, rr \in ChatRerank, ix \in ChatIndexBehaviours }

SendMessage ==
    /\ call = Idle
    /\ \E in \in ChatInputs :
          \E res \in { SendMessageResult(Globals, in.user, in.req, in.p,
                                       in.ix.e, in.ix.r, in.ix.answer, in.gen) } :
             /\ SetGlobals(res.g)
             /\ call' = [op |-> "send_message", user_id |-> in.user,
                         document_id |-> in.req.document_id, top_k |-> res.top_k,
                         status |-> res.status, retrieved |-> res.retrieved,
                         generation |-> res.generation,
                         retrieval |-> res.retrieval]
    /\ UNCHANGED <<dbVars, embeddings, nextRowId>>
    /\ UNCHANGED threads

\* the caller takes the result; the next call starts from Idle
Return ==
    /\ call # Idle
    /\ call' = Idle
    /\ UNCHANGED <<dbVars, embeddings, nextRowId, globalVars>>
    /\ UNCHANGED threads

Next == Retrieve \/ SendMessage \/ Return

Spec == Init /\ [][Next]_vars

(***************************************************************************)
(* The write path: upsert_clause_embedding and _get_qdrant_client          *)
(***************************************************************************)
\* _build_embedding_text(clause, analysis): the labels make the text
\* non-blank whatever the clause holds
BuildEmbeddingText(clause, analysis) == [blank |-> FALSE, tokens |-> clause.tokens]

\* faulty variant: the row of the clause is not looked up
ExistingEmbeddingOverlooked(rows, clause_id) == {}

\* db.query(ClauseEmbedding).filter(ClauseEmbedding.clause_id == clause.id)
ExistingEmbedding(rows, clause_id) == { x \in rows : x.clause_id = clause_id }

\* upsert_clause_embedding(db, clause, analysis, user_id, document_id) on
\* the rows the session sees.
\* Result: [g, embeddings (the rows with the session's writes), nextRowId,
\*          raised, index (how the index write ended), wrote]
UpsertClauseEmbedding(g, rows, next_id, clause, analysis, user_id, document_id, p, e, r) ==
    LET content == BuildEmbeddingText(clause, analysis)
        nothing(raised) ==
            [g |-> g, embeddings |-> rows, nextRowId |-> next_id, raised |-> raised,
             index |-> "not_reached", wrote |-> "none"]
    IN IF content.blank THEN nothing(FALSE)
       ELSE LET emb == CreateQueryEmbedding(content, p)
            IN IF emb.raised THEN nothing(TRUE)
               ELSE IF emb.vector = <<>> THEN nothing(FALSE)
               ELSE
               LET existing == ExistingEmbedding(rows, clause.id)
                   written ==
                       IF existing # {}
                       THEN { IF x \in existing
                              THEN [x EXCEPT !.embedding_json = JsonDumps(emb.vector),
                                             !.user_id = user_id,
                                             !.document_id = document_id]
                              ELSE x : x \in rows }
                       ELSE rows \cup
                            { [id |-> next_id, clause_id |-> clause.id,
                               user_id |-> user_id, document_id |-> document_id,
                               embedding_json |-> JsonDumps(emb.vector),
                               created_at |-> next_id] }
                   indexed == UpsertQdrantClause(g, clause.id, emb.vector, e, r)
               IN [g |-> indexed.g, embeddings |-> written,
                   nextRowId |-> IF existing # {} THEN next_id ELSE next_id + 1,
                   raised |-> indexed.raised, index |-> indexed.status,
                   wrote |-> IF existing # {} THEN "updated" ELSE "created"]

\* what the provider answers for the text of clause c
ClauseProviderAnswers(c) ==
    { [raised |-> TRUE, vector |-> <<>>], [raised |-> FALSE, vector |-> <<>>],
      [raised |-> FALSE, vector |-> StoredVector(c)] }
\* the clauses the write path is run for
UpsertClauses == 1..Min(MaxUpsertClause, NClauses)
UpsertInputs ==
    UNION { { [clause_id |-> c, p |-> p, e |-> e, r |-> r] :
                p \in ClauseProviderAnswers(c), e \in ClientEnvs,
                r \in RemoteBehaviours } : c \in UpsertClauses }

\* before the write path ran: no clause is embedded, or every clause is
InitAdapter ==
    /\ InitDocuments
    /\ \E embedded \in {{}, ClauseIds} :
          embeddings = { EmbeddingRow(c, c) : c \in embedded }
    /\ nextRowId = NClauses + 1
    /\ InitGlobals
    /\ call = Idle
    /\ threads = NoThreads

\* a call of _get_qdrant_client
GetClient ==
    /\ call = Idle
    /\ \E e \in ClientEnvs :
          \E got \in { GetQdrantClient(Globals, e) } :
             /\ SetGlobals(got.g)
             /\ call' = [op |-> "get_client", e |-> e, ret |-> got.ret,
                         attempted |-> got.attempted,
                         failed_before |-> clientHistory.failed,
                         cached_before |-> qdrantClient]
    /\ UNCHANGED <<dbVars, embeddings, nextRowId>>
    /\ UNCHANGED threads

\* a call of upsert_clause_embedding for a stored clause on a session of
\* its own: the session commits when the call returns and rolls back when
\* it raises
Upsert ==
    /\ call = Idle
    /\ \E in \in UpsertInputs :
       \E clause \in { c \in clauses : c.id = in.clause_id } :
       \E analysis \in { a \in analyses : a.clause_id = in.clause_id } :
       \E owner \in { d.owner_id : d \in { x \in documents : x.id = clause.document_id } } :
       \E res \in { UpsertClauseEmbedding(Globals, embeddings, nextRowId, clause,
                                          analysis, owner, clause.document_id,
                                          in.p, in.e, in.r) } :
             /\ SetGlobals(res.g)
             /\ embeddings' = IF res.raised THEN embeddings ELSE res.embeddings
             /\ nextRowId' = IF res.raised THEN nextRowId ELSE res.nextRowId
             /\ call' = [op |-> "upsert", clause_id |-> in.clause_id,
                         user_id |-> owner, document_id |-> clause.document_id,
                         provider |-> in.p, e |-> in.e, r |-> in.r,
                         existed |-> \E x \in embeddings : x.clause_id = in.clause_id,
                         raised |-> res.raised, index |-> res.index,
                         wrote |-> res.wrote]
    /\ UNCHANGED dbVars
    /\ UNCHANGED threads

\* the query vectors of direct searches: of the size of the stored vectors
\* and of another size
SearchVectors == {<<1, 0>>, <<1, 0, 0>>}
\* what the server answers to a search it accepts
SearchAnswers == {<<>>, <<[clause_id |-> 1, score |-> 9000]>>}

\* a call of search_similar_clauses
Search ==
    /\ call = Idle
    /\ \E v \in SearchVectors, e \in ClientEnvs, r \in RemoteBehaviours,
          answer \in SearchAnswers :
          \E res \in { SearchSimilarClauses(Globals, v, e, r, answer) } :
             /\ SetGlobals(res.g)
             /\ call' = [op |-> "search", size |-> Len(v), r |-> r, answer |-> answer,
                         hits |-> res.hits, raised |-> res.raised,
                         status |-> res.status]
    /\ UNCHANGED <<dbVars, embeddings, nextRowId>>
    /\ UNCHANGED threads

NextAdapter == GetClient \/ Upsert \/ Search \/ Return

SpecAdapter == InitAdapter /\ [][NextAdapter]_vars

(***************************************************************************)
(* The handlers that write the store: analyze_document, the real-estate    *)
(* and labor analyses, backfill_embeddings and delete_document             *)
(*                                                                         *)
(* db is what a session sees and will commit:                              *)
(*   [documents, clauses, analyses, embeddings, next]                      *)
(* next is the source of fresh ids (uuid4), never handed out twice.        *)
(***************************************************************************)
Session ==
    [documents |-> documents, clauses |-> clauses, analyses |-> analyses,
     embeddings |-> embeddings, next |-> nextRowId]

\* the unique index on clause_embeddings.clause_id refuses a commit that
\* would leave two rows of one clause
CommitRaises(db) ==
    \E x, y \in db.embeddings : x # y /\ x.clause_id = y.clause_id

RECURSIVE AnalyzeItems(_, _, _, _, _, _, _)
\* the loop of analyze_document over clauses_data: an item is
\* [dict, risk_level, tokens, p], p being the provider's answer for the
\* text of the clause.  Result: [g, db, raised]
AnalyzeItems(g, db, items, user_id, document_id, e, r) ==
    IF items = <<>> THEN [g |-> g, db |-> db, raised |-> FALSE]
    ELSE LET item == Head(items)
         IN IF ~item.dict
            THEN AnalyzeItems(g, db, Tail(items), user_id, document_id, e, r)
            ELSE
            LET new_clause == [id |-> db.next, document_id |-> document_id,
                               tokens |-> item.tokens]
                new_analysis == [clause_id |-> new_clause.id,
                                 risk_level |-> item.risk_level]
                flushed == [db EXCEPT !.clauses = @ \cup {new_clause},
                                      !.analyses = @ \cup {new_analysis},
                                      !.next = @ + 1]
                up == UpsertClauseEmbedding(g, flushed.embeddings, flushed.next,
                                            new_clause, new_analysis, user_id,
                                            document_id, item.p, e, r)
            IN IF up.raised THEN [g |-> up.g, db |-> flushed, raised |-> TRUE]
               ELSE AnalyzeItems(up.g,
                                 [flushed EXCEPT !.embeddings = up.embeddings,
                                                 !.next = up.nextRowId],
                                 Tail(items), user_id, document_id, e, r)

\* what a handler leaves behind and answers: the session is committed when
\* the handler returns and rolled back when it raises; the ids it drew are
\* spent either way
HandlerResult(g, before, after, status, document_id) ==
    [g |-> g,
     db |-> IF status = 200 THEN after ELSE [before EXCEPT !.next = after.next],
     status |-> status, document_id |-> document_id]

\* POST /api/analyze: analyze_document.  ai is what analyze_contract gives:
\* [raised, clauses], clauses being the items of the answer
AnalyzeDocument(g, db, current_user, ai, e, r) ==
    IF ai.raised THEN HandlerResult(g, db, db, 500, NoId)
    ELSE
    LET new_doc == [id |-> db.next, owner_id |-> current_user, status |-> "done"]
        flushed == [db EXCEPT !.documents = @ \cup {new_doc}, !.next = @ + 1]
    IN IF ai.clauses = <<>> THEN HandlerResult(g, db, flushed, 502, new_doc.id)
       ELSE LET looped == AnalyzeItems(g, flushed, ai.clauses, current_user,
                                       new_doc.id, e, r)
            IN IF looped.raised \/ CommitRaises(looped.db)
               THEN HandlerResult(looped.g, db, looped.db, 500, new_doc.id)
               ELSE HandlerResult(looped.g, db, looped.db, 200, new_doc.id)

RECURSIVE StoreItems(_, _, _)
\* the loop of the real-estate analysis over clauses_data: clause and
\* analysis are stored, no embedding is made
StoreItems(db, items, document_id) ==
    IF items = <<>> THEN db
    ELSE LET item == Head(items)
         IN IF ~item.dict THEN StoreItems(db, Tail(items), document_id)
            ELSE StoreItems([db EXCEPT
                                !.clauses = @ \cup {[id |-> db.next,
                                                     document_id |-> document_id,
                                                     tokens |-> item.tokens]},
                                !.analyses = @ \cup {[clause_id |-> db.next,
                                                      risk_level |-> item.risk_level]},
                                !.next = @ + 1],
                            Tail(items), document_id)

\* the summary clause the real-estate and labor analyses store
SummaryItem(risk_level) ==
    [dict |-> TRUE, risk_level |-> risk_level, tokens |-> {"t1"},
     p |-> [raised |-> FALSE, vector |-> <<>>]]

\* POST /api/real-estate/analyze.  ai is [raised, parses, valid, risk_level,
\* clauses]: the answer of analyze_contract, whether it is JSON, whether the
\* gatekeeper takes the file for a contract, and the risk of the summary
AnalyzeRealEstate(g, db, current_user, ai) ==
    IF ai.raised THEN HandlerResult(g, db, db, 500, NoId)
    ELSE IF ~ai.parses THEN HandlerResult(g, db, db, 502, NoId)
    ELSE
    LET new_doc == [id |-> db.next, owner_id |-> current_user, status |-> "done"]
        flushed == [db EXCEPT !.documents = @ \cup {new_doc}, !.next = @ + 1]
        clauses_data == IF ai.valid THEN ai.clauses ELSE <<>>
        summary == SummaryItem(IF ai.valid THEN ai.risk_level ELSE "LOW")
    IN HandlerResult(g, db,
                     StoreItems(flushed, <<summary>> \o clauses_data, new_doc.id),
                     200, new_doc.id)

\* POST /api/assistant/analyze: one summary clause and its analysis
AnalyzeLaborContract(g, db, current_user, ai) ==
    IF ai.raised THEN HandlerResult(g, db, db, 500, NoId)
    ELSE
    LET new_doc == [id |-> db.next, owner_id |-> current_user, status |-> "done"]
        flushed == [db EXCEPT !.documents = @ \cup {new_doc}, !.next = @ + 1]
    IN HandlerResult(g, db,
                     StoreItems(flushed, <<SummaryItem(ai.risk_level)>>, new_doc.id),
                     200, new_doc.id)

\* the rows backfill_user_embeddings reads: the owner's analyzed clauses in
\* "done" documents (in scope) that no embedding row joins
BackfillRows(user_id, document_id) ==
    RowsInOrder({ x \in JoinedRows(user_id) :
                    /\ ~\E y \in embeddings : y.clause_id = x.clause_id
                    /\ document_id # NoId => x.document_id = document_id },
                FALSE)

RECURSIVE BackfillLoop(_, _, _, _, _, _, _, _, _)
\* the loop of backfill_user_embeddings.  visible are the rows a query of
\* the session finds (the session does not flush before a query), db holds
\* the session's writes, ps[c] is the provider's answer for clause c.
\* Result: [g, db, raised, count]
BackfillLoop(g, visible, db, rows, user_id, ps, e, r, count) ==
    IF rows = <<>> THEN [g |-> g, db |-> db, raised |-> FALSE, count |-> count]
    ELSE LET row == Head(rows)
             up == UpsertClauseEmbedding(
                       g, visible, db.next,
                       [id |-> row.clause_id, document_id |-> row.document_id,
                        tokens |-> row.tokens],
                       [clause_id |-> row.clause_id, risk_level |-> row.risk_level],
                       user_id, row.document_id, ps[row.clause_id], e, r)
             written == up.embeddings \ visible
         IN IF up.raised
            THEN [g |-> up.g, db |-> db, raised |-> TRUE, count |-> count]
            ELSE BackfillLoop(up.g, visible,
                              [db EXCEPT
                                 !.embeddings =
                                     { x \in @ : ~\E y \in written : y.id = x.id }
                                        \cup written,
                                 !.next = up.nextRowId],
                              Tail(rows), user_id, ps, e, r, count + 1)

\* POST /api/analyze/backfill-embeddings: backfill_embeddings.
\* Result: [g, db, status, count]
BackfillEmbeddings(g, db, current_user, document_id, ps, e, r) ==
    LET looped == BackfillLoop(g, db.embeddings, db,
                               BackfillRows(current_user, document_id),
                               current_user, ps, e, r, 0)
        status == IF looped.raised \/ CommitRaises(looped.db) THEN 500 ELSE 200
    IN [g |-> looped.g,
        db |-> IF status = 200 THEN looped.db ELSE [db EXCEPT !.next = looped.db.next],
        status |-> status,
        count |-> IF status = 200 THEN looped.count ELSE 0]

\* faulty variant: the rows of the embedding table are left to a cascade
\* that does not exist
DeleteDocumentKeepingRows(db, current_user, document_id, valid, fails) ==
    IF ~valid THEN [db |-> db, status |-> 400]
    ELSE IF ~\E d \in db.documents : d.id = document_id /\ d.owner_id = current_user
    THEN [db |-> db, status |-> 404]
    ELSE IF fails THEN [db |-> db, status |-> 500]
    ELSE [db |-> [db EXCEPT
                    !.analyses = { a \in @ : \E c \in db.clauses :
                                     c.id = a.clause_id /\ c.document_id # document_id },
                    !.clauses = { c \in @ : c.document_id # document_id },
                    !.documents = { d \in @ : d.id # document_id }],
          status |-> 200]

\* DELETE /api/analyze/{document_id}: delete_document.  valid says the
\* path parameter is a uuid, fails that a statement or the commit raises.
\* Result: [db, status]
DeleteDocument(db, current_user, document_id, valid, fails) ==
    IF ~valid THEN [db |-> db, status |-> 400]
    ELSE IF ~\E d \in db.documents : d.id = document_id /\ d.owner_id = current_user
    THEN [db |-> db, status |-> 404]
    ELSE IF fails THEN [db |-> db, status |-> 500]
    ELSE LET gone == { c.id : c \in { x \in db.clauses : x.document_id = document_id } }
         IN [db |-> [db EXCEPT
                       !.embeddings = { x \in @ : x.document_id # document_id },
                       !.analyses = { a \in @ : a.clause_id \notin gone },
                       !.clauses = { c \in @ : c.document_id # document_id },
                       !.documents = { d \in @ : d.id # document_id }],
             status |-> 200]

\* the ways the index behaves during a handler that writes
IngestIndexEnvs ==
    { [e |-> "ok", r |-> RemoteUp], [e |-> "ok", r |-> [RemoteUp EXCEPT !.op = FALSE]] }

\* the provider's answers for the text of a new clause
NewClauseProviderAnswers ==
    { [raised |-> TRUE, vector |-> <<>>], [raised |-> FALSE, vector |-> <<>>],
      [raised |-> FALSE, vector |-> DefaultQueryVector] }
JunkItem == [dict |-> FALSE, risk_level |-> "LOW", tokens |-> {}, p |-> FailingProvider]
NewItems ==
    {JunkItem} \cup { [dict |-> TRUE, risk_level |-> "HIGH", tokens |-> {"t1"}, p |-> p] :
                        p \in NewClauseProviderAnswers }
RECURSIVE ItemLists(_)
\* the lists of at most n items
ItemLists(n) ==
    IF n = 0 THEN {<<>>}
    ELSE LET shorter == ItemLists(n - 1)
         IN shorter \cup { <<i>> \o t : i \in NewItems, t \in { x \in shorter : Len(x) = n - 1 } }
AnalyzerAnswers ==
    { [raised |-> TRUE, clauses |-> <<>>] }
        \cup { [raised |-> FALSE, clauses |-> l] : l \in ItemLists(MaxNewClauses) }
RealEstateAnswers ==
    { [raised |-> TRUE, parses |-> FALSE, valid |-> FALSE, risk_level |-> "LOW", clauses |-> <<>>],
      [raised |-> FALSE, parses |-> FALSE, valid |-> FALSE, risk_level |-> "LOW", clauses |-> <<>>],
      [raised |-> FALSE, parses |-> TRUE, valid |-> FALSE, risk_level |-> "LOW", clauses |-> <<>>] }
        \cup { [raised |-> FALSE, parses |-> TRUE, valid |-> TRUE, risk_level |-> "HIGH",
                clauses |-> l] : l \in ItemLists(1) }
LaborAnswers ==
    { [raised |-> TRUE, risk_level |-> "LOW"], [raised |-> FALSE, risk_level |-> "LOW"],
      [raised |-> FALSE, risk_level |-> "HIGH"] }

SetStore(db) ==
    /\ documents' = db.documents
    /\ clauses' = db.clauses
    /\ analyses' = db.analyses
    /\ embeddings' = db.embeddings
    /\ nextRowId' = db.next

\* the clauses of a document and those of them that are analyzed / embedded
ClausesOf(document_id) == { c.id : c \in { x \in clauses : x.document_id = document_id } }
AnalyzedClausesOf(document_id) ==
    { c \in ClausesOf(document_id) : \E a \in analyses : a.clause_id = c }
EmbeddedClauses == { x.clause_id : x \in embeddings }

\* a request to one of the three analysis endpoints
Analyze ==
    /\ call = Idle
    /\ nextRowId <= MaxRowId
    /\ \/ \E u \in Users, ai \in AnalyzerAnswers, ix \in IngestIndexEnvs :
          \E res \in { AnalyzeDocument(Globals, Session, u, ai, ix.e, ix.r) } :
             /\ SetGlobals(res.g)
             /\ SetStore(res.db)
             /\ call' = [op |-> "analyze_document", user_id |-> u, ai |-> ai,
                         status |-> res.status, document_id |-> res.document_id]
       \/ \E u \in Users, ai \in RealEstateAnswers :
          \E res \in { AnalyzeRealEstate(Globals, Session, u, ai) } :
             /\ SetGlobals(res.g)
             /\ SetStore(res.db)
             /\ call' = [op |-> "analyze_real_estate", user_id |-> u, ai |-> ai,
                         status |-> res.status, document_id |-> res.document_id]
       \/ \E u \in Users, ai \in LaborAnswers :
          \E res \in { AnalyzeLaborContract(Globals, Session, u, ai) } :
             /\ SetGlobals(res.g)
             /\ SetStore(res.db)
             /\ call' = [op |-> "analyze_labor_contract", user_id |-> u, ai |-> ai,
                         status |-> res.status, document_id |-> res.document_id]
    /\ UNCHANGED threads

\* the scopes a request can name: none, a stored document, a document that
\* is not stored
StoredScopes == {NoId} \cup { d.id : d \in documents } \cup {nextRowId}

\* a request to backfill_embeddings
Backfill ==
    /\ call = Idle
    /\ nextRowId <= MaxRowId
    /\ \E u \in Users, d \in StoredScopes, ix \in IngestIndexEnvs :
       \E missing \in { { x.clause_id : x \in { y \in JoinedRows(u) :
                                                  y.clause_id \notin EmbeddedClauses } } } :
       \E ps \in { [c \in missing |-> p] : p \in NewClauseProviderAnswers } :
       \E res \in { BackfillEmbeddings(Globals, Session, u, d, ps, ix.e, ix.r) } :
          /\ SetGlobals(res.g)
          /\ SetStore(res.db)
          /\ call' = [op |-> "backfill", user_id |-> u, document_id |-> d,
                      status |-> res.status, count |-> res.count,
                      ps |-> ps, rows_before |-> embeddings,
                      missing |-> { x.clause_id : x \in
                                      { y \in JoinedRows(u) :
                                          /\ y.clause_id \in missing
                                          /\ d # NoId => y.document_id = d } }]
    /\ UNCHANGED threads

\* a request to delete_document
Delete ==
    /\ call = Idle
    /\ \E u \in Users, d \in StoredScopes \ {NoId}, valid \in BOOLEAN, fails \in BOOLEAN :
       \E res \in { DeleteDocument(Session, u, d, valid, fails) } :
          /\ SetStore(res.db)
          /\ call' = [op |-> "delete_document", user_id |-> u, document_id |-> d,
                      status |-> res.status, rows_before |-> embeddings,
                      clauses_before |-> ClausesOf(d)]
    /\ UNCHANGED globalVars
    /\ UNCHANGED threads

\* a retrieval over the whole store of a user, the index answering with
\* nothing or with one of its points
RetrieveStored ==
    /\ call = Idle
    /\ \E u \in Users, rr \in BOOLEAN,
          answer \in {<<>>} \cup { <<[clause_id |-> c, score |-> 9000]>> : c \in qdrant.points } :
          RetrieveCall(RetrievalInput(u, SomeText, NoId, DEFAULT_TOP_K, -ScoreOne,
                                      DEFAULT_CANDIDATE_K, rr, WorkingProvider,
                                      [e |-> "ok", r |-> RemoteUp, answer |-> answer]))
    /\ UNCHANGED <<dbVars, embeddings, nextRowId>>
    /\ UNCHANGED threads

\* the store before the handlers ran: the clauses with an even id are
\* embedded, the others are not
InitIngest ==
    /\ InitDocuments
    /\ embeddings = { EmbeddingRow(c, c) : c \in { x \in ClauseIds : x % 2 = 0 } }
    /\ nextRowId = NClauses + 1
    /\ InitGlobals
    /\ call = Idle
    /\ threads = NoThreads

\* a call of upsert_clause_embedding for a stored clause, on a session of
\* its own that commits when the call returns
UpsertStored ==
    /\ call = Idle
    /\ nextRowId <= MaxRowId
    /\ \E clause \in clauses, p \in NewClauseProviderAnswers, ix \in IngestIndexEnvs :
       \E analysis \in { a \in analyses : a.clause_id = clause.id } :
       \E owner \in { d.owner_id : d \in { x \in documents : x.id = clause.document_id } } :
       \E res \in { UpsertClauseEmbedding(Globals, embeddings, nextRowId, clause,
                                          analysis, owner, clause.document_id,
                                          p, ix.e, ix.r) } :
       \E failed \in { res.raised \/ CommitRaises([embeddings |-> res.embeddings]) } :
          /\ SetGlobals(res.g)
          /\ embeddings' = IF failed THEN embeddings ELSE res.embeddings
          /\ nextRowId' = res.nextRowId
          /\ call' = [op |-> "upsert_stored", clause_id |-> clause.id,
                      user_id |-> owner, document_id |-> clause.document_id,
                      provider |-> p, raised |-> failed, rows_before |-> embeddings]
    /\ UNCHANGED dbVars
    /\ UNCHANGED threads

NextIngest == Analyze \/ Backfill \/ Delete \/ UpsertStored \/ RetrieveStored \/ Return

SpecIngest == InitIngest /\ [][NextIngest]_vars

\* the handlers that write the store or the index
WriteStep == Analyze \/ Backfill \/ Delete \/ UpsertStored

\* the server goes on answering the requests it is sent
SpecIngestFair == SpecIngest /\ WF_vars(NextIngest)

(***************************************************************************)
(* Concurrent first use of the adapter                                     *)
(*                                                                         *)
(* Handlers declared with def run on the threads of the server's pool, so  *)
(* several calls can be inside _get_qdrant_client and                      *)
(* _ensure_qdrant_collection at once; the module takes no lock.  A thread  *)
(* is [pc, size, client, made, outcome]: its position, the size of the     *)
(* vector of its call, the handle its call uses, the handle it built and   *)
(* how _ensure_qdrant_collection ended for it.  One step is one access to  *)
(* a module global or one request to the server; the server is up.         *)
(***************************************************************************)
Threads == 1..NThreads
\* the sizes of the vectors of the concurrent calls
VectorSizes == {2, 3}

ThreadStart(size) ==
    [pc |-> "check_client", size |-> size, client |-> NoClient, made |-> NoClient,
     outcome |-> "running"]

InitThreads ==
    /\ InitStore
    /\ InitGlobals
    /\ call = Idle
    /\ threads \in [Threads -> { ThreadStart(size) : size \in VectorSizes }]

Finished(t, outcome) == [threads EXCEPT ![t].pc = "done", ![t].outcome = outcome]
Goto(t, pc) == [threads EXCEPT ![t].pc = pc]

\* thread t inside _get_qdrant_client: the test of the cached handle, the
\* construction, the assignment to the global and the return of the global.
\* The constructor succeeds, or, when a handle was built before (a local
\* store is locked by the handle that holds it), raises.
GetQdrantClientStep(t) ==
    /\ \/ /\ threads[t].pc = "check_client"
          /\ threads' =
                IF qdrantClient # NoClient
                THEN [threads EXCEPT ![t].pc = "check_ensured", ![t].client = qdrantClient]
                ELSE IF qdrantImportFailed THEN Finished(t, "no_client")
                ELSE Goto(t, "construct")
          /\ UNCHANGED <<qdrantClient, clientHistory, qdrantImported>>
       \/ /\ threads[t].pc = "construct"
          /\ \/ /\ threads' = [threads EXCEPT ![t].pc = "assign",
                                              ![t].made = clientHistory.built + 1]
                /\ clientHistory' = [clientHistory EXCEPT !.built = @ + 1]
             \/ /\ clientHistory.built > 0
                /\ threads' = Finished(t, "no_client")
                /\ clientHistory' = [clientHistory EXCEPT !.failed = TRUE]
          /\ qdrantImported' = TRUE
          /\ UNCHANGED qdrantClient
       \/ /\ threads[t].pc = "assign"
          /\ qdrantClient' = threads[t].made
          /\ threads' = Goto(t, "return_client")
          /\ UNCHANGED <<clientHistory, qdrantImported>>
       \/ /\ threads[t].pc = "return_client"
          /\ threads' = [threads EXCEPT ![t].pc = "check_ensured",
                                        ![t].client = qdrantClient]
          /\ UNCHANGED <<qdrantClient, clientHistory, qdrantImported>>
    /\ UNCHANGED <<dbVars, embeddings, nextRowId, qdrantImportFailed,
                   ensuredCollections, indexedFields, qdrant, call>>

\* thread t inside _ensure_qdrant_collection: the test of the ensured set,
\* get_collections, create_collection (refused by the server when the
\* collection exists by then: the except branch) and the note in the set
EnsureQdrantCollectionStep(t) ==
    /\ \/ /\ threads[t].pc = "check_ensured"
          /\ threads' = IF GetQdrantCollectionName \in ensuredCollections
                        THEN Finished(t, "ensured_before")
                        ELSE Goto(t, "get_collections")
          /\ UNCHANGED <<qdrant, ensuredCollections>>
       \/ /\ threads[t].pc = "get_collections"
          /\ threads' = Goto(t, IF qdrant.exists THEN "note" ELSE "create_collection")
          /\ UNCHANGED <<qdrant, ensuredCollections>>
       \/ /\ threads[t].pc = "create_collection"
          /\ IF qdrant.exists
             THEN /\ threads' = Finished(t, "error_logged")
                  /\ UNCHANGED qdrant
             ELSE /\ threads' = Goto(t, "note")
                  /\ qdrant' = [qdrant EXCEPT !.exists = TRUE, !.size = threads[t].size]
          /\ UNCHANGED ensuredCollections
       \/ /\ threads[t].pc = "note"
          /\ ensuredCollections' = ensuredCollections \cup {GetQdrantCollectionName}
          /\ threads' = Goto(t, "payload_indexes")
          /\ UNCHANGED qdrant
    /\ UNCHANGED <<dbVars, embeddings, nextRowId, qdrantClient, qdrantImportFailed,
                   indexedFields, qdrantImported, clientHistory, call>>

\* thread t inside _ensure_payload_indexes: the test of the cache key, the
\* two create_payload_index requests (an index that exists is ignored) and
\* the note of the cache key
EnsurePayloadIndexesStep(t) ==
    /\ \/ /\ threads[t].pc = "payload_indexes"
          /\ IF PayloadIndexCacheKey \in indexedFields
             THEN /\ threads' = Finished(t, "ensured")
                  /\ UNCHANGED qdrant
             ELSE /\ threads' = Goto(t, "note_indexes")
                  /\ qdrant' = [qdrant EXCEPT
                                  !.payloadIndexes = @ \cup {"user_id", "document_id"}]
          /\ UNCHANGED indexedFields
       \/ /\ threads[t].pc = "note_indexes"
          /\ indexedFields' = indexedFields \cup {PayloadIndexCacheKey}
          /\ threads' = Finished(t, "ensured")
          /\ UNCHANGED qdrant
    /\ UNCHANGED <<dbVars, embeddings, nextRowId, qdrantClient, qdrantImportFailed,
                   ensuredCollections, qdrantImported, clientHistory, call>>

NextThreads ==
    \E t \in Threads :
        \/ GetQdrantClientStep(t)
        \/ EnsureQdrantCollectionStep(t)
        \/ EnsurePayloadIndexesStep(t)

SpecThreads == InitThreads /\ [][NextThreads]_vars

(***************************************************************************)
(* Properties of retrieval and of the chat handler                         *)
(***************************************************************************)
\* the call that has just returned made a retrieval
Retrieved ==
    \/ call.op = "retrieve"
    \/ call.op = "send_message" /\ call.retrieved
Ret == call.retrieval
Last(seq) == seq[Len(seq)]

DocumentOwnedBy(document_id, user_id) ==
    \E d \in documents : d.id = document_id /\ d.owner_id = user_id
ClauseOwnedBy(clause_id, user_id) ==
    \E c \in clauses : c.id = clause_id /\ DocumentOwnedBy(c.document_id, user_id)
DocumentDone(document_id) ==
    \E d \in documents : d.id = document_id /\ d.status = "done"
ClauseInDoneDocument(clause_id) ==
    \E c \in clauses : c.id = clause_id /\ DocumentDone(c.document_id)
ClauseOfDocument(clause_id, document_id) ==
    \E c \in clauses : c.id = clause_id /\ c.document_id = document_id

\* the clause blocks of a context, in order
Blocks(context) == SelectSeq(context, LAMBDA part : part.kind = "block")

\* C1: every citation and every clause block or document header of the
\* context a retrieval for user U returns refers to a clause of a document
\* whose owner is U, whatever ids the index answered with.
C1_OwnerScoped ==
    Retrieved =>
        /\ \A i \in 1..Len(Ret.citations) :
              /\ ClauseOwnedBy(Ret.citations[i].clause_id, call.user_id)
              /\ DocumentOwnedBy(Ret.citations[i].document_id, call.user_id)
              /\ ClauseOfDocument(Ret.citations[i].clause_id,
                                  Ret.citations[i].document_id)
        /\ \A i \in 1..Len(Ret.context) :
              /\ Ret.context[i].kind = "block"
                    => ClauseOwnedBy(Ret.context[i].clause_id, call.user_id)
              /\ Ret.context[i].kind = "header"
                    => DocumentOwnedBy(Ret.context[i].document_id, call.user_id)

\* a retrieval whose candidates held a clause of another owner's "done"
\* document, and that cited a clause
C1_ForeignCandidateDropped ==
    /\ Retrieved
    /\ Ret.citations # <<>>
    /\ \E c \in Ret.candidates :
          /\ ~ClauseOwnedBy(c, call.user_id)
          /\ ClauseInDoneDocument(c)

\* C2: no clause of a document whose status is not "done" is cited or put
\* into the context, even when a tier returned its id.
C2_OnlyDoneDocuments ==
    Retrieved =>
        /\ \A i \in 1..Len(Ret.citations) :
              /\ ClauseInDoneDocument(Ret.citations[i].clause_id)
              /\ DocumentDone(Ret.citations[i].document_id)
        /\ \A i \in 1..Len(Ret.context) :
              /\ Ret.context[i].kind = "block"
                    => ClauseInDoneDocument(Ret.context[i].clause_id)
              /\ Ret.context[i].kind = "header"
                    => DocumentDone(Ret.context[i].document_id)

\* a retrieval whose candidates held a clause of the caller's own document
\* that is not "done", and that cited a clause
C2_UnfinishedCandidateDropped ==
    /\ Retrieved
    /\ Ret.citations # <<>>
    /\ \E c \in Ret.candidates :
          /\ ClauseOwnedBy(c, call.user_id)
          /\ ~ClauseInDoneDocument(c)

\* C3: a retrieval returns at most max(top_k, 1) citations, and the i-th
\* citation is of the clause of the i-th clause block of the context.
C3_CitationsBoundedAndAligned ==
    (Retrieved /\ ~Ret.raised) =>
        /\ Len(Ret.citations) <= Max(call.top_k, 1)
        /\ Ret.citations # <<>> =>
              /\ Len(Blocks(Ret.context)) = Len(Ret.citations)
              /\ \A i \in 1..Len(Ret.citations) :
                    /\ Blocks(Ret.context)[i].clause_id = Ret.citations[i].clause_id
                    /\ Blocks(Ret.context)[i].document_id = Ret.citations[i].document_id

\* a retrieval that fetched more rows than max(top_k, 1) and cited the
\* clause the ranking put first, which is not the first fetched
C3_Truncated ==
    /\ Retrieved
    /\ Ret.fetched > Max(call.top_k, 1)
    /\ Len(Ret.citations) = Max(call.top_k, 1)
    /\ \E c \in Ret.candidates :
          /\ c < Ret.citations[1].clause_id
          /\ ClauseOwnedBy(c, call.user_id)
          /\ ClauseInDoneDocument(c)

\* the owner has no analyzed clause in a "done" document
NoAnalyzedDoneClause(user_id) == JoinedRowsOf({user_id}, {"done"}) = {}

\* C4: for an owner with no analyzed clause in a "done" document a retrieval
\* returns the sentinel context and no citation, and never raises.
C4_SentinelForEmptyOwner ==
    (Retrieved /\ NoAnalyzedDoneClause(call.user_id)) =>
        /\ ~Ret.raised
        /\ Ret.context = <<SentinelPart>>
        /\ Ret.citations = <<>>

\* C5: tier 2 is queried exactly when the query vector is non-empty and
\* tier 1 returned no candidate, after tier 1 and with the same owner,
\* document scope, threshold and limit; it is not queried when tier 1
\* returned a candidate.
C5_FallbackIffTierOneEmpty ==
    Retrieved =>
        /\ Ret.tier2.queried <=>
              /\ Ret.query_dim > 0
              /\ Ret.tier1.queried
              /\ Ret.tier1.found = 0
              /\ ~Ret.raised
        /\ Ret.tier2.queried =>
              /\ Ret.tier2.user_id = Ret.tier1.user_id
              /\ Ret.tier2.user_id = call.user_id
              /\ Ret.tier2.document_id = Ret.tier1.document_id
              /\ Ret.tier2.document_id = call.document_id
              /\ Ret.tier2.threshold = Ret.tier1.threshold
              /\ Ret.tier2.limit = Ret.tier1.limit
              /\ \E i, j \in 1..Len(Ret.trace) :
                    /\ i < j
                    /\ Ret.trace[i] = "SEARCH_INDEX"
                    /\ Ret.trace[j] = "SEARCH_FALLBACK"

\* a retrieval whose tier 1 returned nothing and whose fallback found a
\* candidate
C5_FallbackAnswered ==
    /\ Retrieved
    /\ Ret.tier1.queried
    /\ Ret.tier1.status = "ok"
    /\ Ret.tier2.queried
    /\ Ret.tier2.found > 0
    /\ Ret.citations # <<>>

TierFound(tier) == tier.queried /\ tier.found > 0
DoneTraces ==
    { <<"EMBED", "SEARCH_INDEX", "FETCH_ROWS", "FUSE_RANK", "FORMAT", "DONE">>,
      <<"EMBED", "SEARCH_INDEX", "SEARCH_FALLBACK", "FETCH_ROWS", "FUSE_RANK",
        "FORMAT", "DONE">> }
UnrankedAfterEmbed == <<"EMBED", "UNRANKED">>
UnrankedAfterFallback == <<"EMBED", "SEARCH_INDEX", "SEARCH_FALLBACK", "UNRANKED">>
UnrankedAfterFetch ==
    { <<"EMBED", "SEARCH_INDEX", "FETCH_ROWS", "UNRANKED">>,
      <<"EMBED", "SEARCH_INDEX", "SEARCH_FALLBACK", "FETCH_ROWS", "UNRANKED">> }
\* what an unranked exit returns
UnrankedOutput ==
    /\ Ret.citations = <<>>
    /\ Ret.context = BuildContractContext(call.user_id, call.document_id)

\* C6 as stated: a retrieval that returns passed the stages in order, only
\* SEARCH_FALLBACK may be skipped, UNRANKED is reached from exactly two
\* branches (empty query vector, both tiers empty), and the call reaches DONE
\* once at least one tier returned a candidate.
C6_TwoUnrankedBranches ==
    (Retrieved /\ ~Ret.raised) =>
        /\ Ret.trace \in DoneTraces \cup {UnrankedAfterEmbed, UnrankedAfterFallback}
        /\ Ret.trace = UnrankedAfterEmbed <=> Ret.query_dim = 0
        /\ Ret.trace = UnrankedAfterFallback <=>
              /\ Ret.query_dim > 0
              /\ ~TierFound(Ret.tier1)
              /\ ~TierFound(Ret.tier2)
        /\ (TierFound(Ret.tier1) \/ TierFound(Ret.tier2)) => Ret.trace \in DoneTraces

\* C6 with the third branch: a retrieval that returns reaches UNRANKED from
\* exactly three branches (empty query vector; both tiers empty; the row
\* fetch, which filters the candidates again by owner, scope and "done",
\* returned no row) and reaches DONE exactly when the fetch returned a row;
\* only SEARCH_FALLBACK may be skipped, and an unranked exit returns the
\* unranked context and no citation.
C6_ThreeUnrankedBranches ==
    (Retrieved /\ ~Ret.raised) =>
        /\ Ret.trace \in DoneTraces \cup UnrankedAfterFetch
                            \cup {UnrankedAfterEmbed, UnrankedAfterFallback}
        /\ Ret.trace = UnrankedAfterEmbed <=> Ret.query_dim = 0
        /\ Ret.trace = UnrankedAfterFallback <=>
              /\ Ret.query_dim > 0
              /\ ~TierFound(Ret.tier1)
              /\ ~TierFound(Ret.tier2)
        /\ Ret.trace \in UnrankedAfterFetch <=>
              /\ TierFound(Ret.tier1) \/ TierFound(Ret.tier2)
              /\ Ret.fetched = 0
        /\ Ret.trace \in DoneTraces <=> Ret.fetched > 0
        /\ ("SEARCH_FALLBACK" \in { Ret.trace[i] : i \in 1..Len(Ret.trace) })
              <=> Ret.tier2.queried
        /\ Last(Ret.trace) = "UNRANKED" => UnrankedOutput
        /\ Last(Ret.trace) = "DONE" => Ret.citations # <<>>

\* a retrieval whose tier 1 returned candidates none of which survived the
\* row fetch, for an owner who has retrievable clauses
C6_FetchReturnedNothing ==
    /\ Retrieved
    /\ TierFound(Ret.tier1)
    /\ Ret.fetched = 0
    /\ Last(Ret.trace) = "UNRANKED"
    /\ Blocks(Ret.context) # <<>>

\* C7: when the index cannot be used (no client, server unreachable,
\* collection missing or not creatable, search failing) the search returns
\* no candidate and does not raise, and the retrieval goes on to the
\* fallback as for an empty tier 1.
C7_IndexFailureIsEmptyTier ==
    (Retrieved /\ Ret.tier1.queried /\ Ret.tier1.status # "ok") =>
        /\ ~Ret.raised
        /\ Ret.tier1.found = 0
        /\ Ret.tier2.queried
        /\ "SEARCH_FALLBACK" \in { Ret.trace[i] : i \in 1..Len(Ret.trace) }

\* a retrieval whose index search failed on the server side and whose
\* fallback supplied the cited clauses
C7_SearchFailedFallbackServed ==
    /\ Retrieved
    /\ Ret.tier1.queried
    /\ Ret.tier1.status = "search_error"
    /\ Ret.tier2.found > 0
    /\ Last(Ret.trace) = "DONE"

\* C9: a chat request never surfaces a failure of retrieval: the answer
\* generation is invoked whatever retrieval did.
C9_ChatNeverSurfacesRetrievalFailure ==
    (call.op = "send_message" /\ call.retrieved) =>
        /\ ~Ret.raised
        /\ call.generation # "not_invoked"

\* C8: over the calls of _get_qdrant_client in one process the client is
\* built at most once: after an attempt that failed every later call
\* returns None without attempting again, and after an attempt that
\* succeeded every later call returns the cached handle.
C8_ClientBuiltAtMostOnce ==
    call.op = "get_client" =>
        /\ call.failed_before => (call.ret = NoClient /\ ~call.attempted)
        /\ call.cached_before # NoClient =>
              (call.ret = call.cached_before /\ ~call.attempted)

\* a row of the embedding table that holds what the call was to write
RowWritten ==
    \E x \in embeddings :
        /\ x.clause_id = call.clause_id
        /\ x.user_id = call.user_id
        /\ x.document_id = call.document_id
        /\ x.embedding_json = JsonDumps(call.provider.vector)

\* C10: when the index fails during upsert_clause_embedding (no client,
\* collection not ensured, upsert request raising) the call does not raise
\* and the ClauseEmbedding row is created or updated all the same.
C10_IndexFailureKeepsRow ==
    (call.op = "upsert" /\ call.index \in {"no_client", "upsert_error"}) =>
        /\ ~call.raised
        /\ call.wrote = (IF call.existed THEN "updated" ELSE "created")
        /\ RowWritten
        /\ Cardinality({ x \in embeddings : x.clause_id = call.clause_id }) = 1

\* a call that created the row although the collection could not be
\* ensured and the upsert request failed
C10_RowCreatedWithoutIndex ==
    /\ call.op = "upsert"
    /\ call.index = "upsert_error"
    /\ ~call.r.list
    /\ ~qdrant.exists
    /\ call.wrote = "created"
    /\ RowWritten

(***************************************************************************)
(* Properties of the handlers that write the store                         *)
(***************************************************************************)
Called(op) == call.op = op

\* the items of an answer for which a clause is stored and the provider
\* fails: it raises, or it comes back with no vector
FailedItems(items) ==
    { i \in 1..Len(items) :
        items[i].dict /\ (items[i].p.raised \/ items[i].p.vector = <<>>) }

\* C11: when the embedding provider fails for a clause during
\* analyze_document the request still succeeds: the document, its clauses
\* and their analyses are persisted and a clause is left without an
\* embedding row (for a later backfill to embed).
C11_ProviderFailureKeepsIngestion ==
    (/\ Called("analyze_document")
     /\ ~call.ai.raised
     /\ FailedItems(call.ai.clauses) # {}) =>
        /\ call.status = 200
        /\ \E d \in documents : d.id = call.document_id /\ d.status = "done"
        /\ ClausesOf(call.document_id) # {}
        /\ AnalyzedClausesOf(call.document_id) = ClausesOf(call.document_id)
        /\ ~(ClausesOf(call.document_id) \subseteq EmbeddedClauses)

\* C12: the count backfill_embeddings returns is the number of embedding
\* rows the call created, which is the number of the owner's analyzed
\* clauses of "done" documents (in scope) that had no row before the
\* call, and after the call each of these clauses has exactly one row.
C12_BackfillCountsNewRows ==
    (Called("backfill") /\ call.status = 200) =>
        /\ call.count = Cardinality(embeddings \ call.rows_before)
        /\ call.count = Cardinality(call.missing)
        /\ \A c \in call.missing :
              Cardinality({ x \in embeddings : x.clause_id = c }) = 1

\* the rows of the embedding table for one clause
RowsOfClause(rows, clause_id) == { x \in rows : x.clause_id = clause_id }

\* a call of upsert_clause_embedding for a clause that had a row, the
\* provider giving a vector for its text
UpsertOfEmbeddedClause ==
    /\ Called("upsert_stored")
    /\ RowsOfClause(call.rows_before, call.clause_id) # {}
    /\ ~call.provider.raised
    /\ call.provider.vector # <<>>

\* C13: whatever ingestions, upserts, backfills and deletions ran, no
\* clause has two embedding rows; and upsert_clause_embedding for a clause
\* that has a row succeeds and rewrites that row in place: the row keeps
\* its id and carries the new vector, owner and document, and every other
\* row is as it was.
C13_OneRowPerClause ==
    /\ \A x, y \in embeddings : x.clause_id = y.clause_id => x = y
    /\ UpsertOfEmbeddedClause =>
          /\ ~call.raised
          /\ \E old \in RowsOfClause(call.rows_before, call.clause_id) :
             \E new \in RowsOfClause(embeddings, call.clause_id) :
                /\ new.id = old.id
                /\ new.embedding_json = JsonDumps(call.provider.vector)
                /\ new.user_id = call.user_id
                /\ new.document_id = call.document_id
                /\ embeddings \ {new} = call.rows_before \ {old}

\* an upsert that replaced the vector of a row written before
C13_RowRewritten ==
    /\ UpsertOfEmbeddedClause
    /\ \E old \in RowsOfClause(call.rows_before, call.clause_id) :
       \E new \in RowsOfClause(embeddings, call.clause_id) :
          /\ new.id = old.id
          /\ new.embedding_json # old.embedding_json
    /\ Cardinality(embeddings) > 1

\* C14: after a successful request to one of the analysis endpoints
\* (contract, real-estate, labor contract) every analyzed clause of the
\* new document has an embedding row.
C14_IngestionEmbedsAnalyzedClauses ==
    (/\ call.op \in {"analyze_document", "analyze_real_estate", "analyze_labor_contract"}
     /\ call.status = 200) =>
        AnalyzedClausesOf(call.document_id) \subseteq EmbeddedClauses

StoredClauseIds == { c.id : c \in clauses }

\* C15: a delete_document that succeeds leaves no embedding row of the
\* document or of its clauses and leaves the rows of the other documents
\* as they were; one that fails removes no row; and a retrieval cites only
\* clauses and documents that are stored, so never a clause of a deleted
\* document, whatever the index still holds.
C15_DeleteRemovesRowsOfDocument ==
    /\ Called("delete_document") =>
          IF call.status = 200
          THEN /\ ~\E x \in embeddings :
                     \/ x.document_id = call.document_id
                     \/ x.clause_id \in call.clauses_before
               /\ embeddings =
                     { x \in call.rows_before : x.document_id # call.document_id }
               /\ call.clauses_before \cap StoredClauseIds = {}
          ELSE embeddings = call.rows_before
    /\ Called("retrieve") =>
          \A i \in 1..Len(Ret.citations) :
             /\ Ret.citations[i].clause_id \in StoredClauseIds
             /\ \E d \in documents : d.id = Ret.citations[i].document_id

\* a retrieval after a deletion: the index offers the point of a clause
\* whose document was deleted, the rows of other documents are still there
C15_DeletedClauseOffered ==
    /\ Called("retrieve")
    /\ \E c \in Ret.candidates :
          /\ c \in ClauseIds \ StoredClauseIds
          /\ c \in qdrant.points
          /\ c \notin EmbeddedClauses
    /\ embeddings # {}

\* C16: the index mirrors the embedding table in the end: once the
\* handlers that write have stopped being called (retrievals may go on, the
\* index being reachable), the points of the index are, from some moment
\* on, exactly the clauses that have an embedding row.
C16_IndexEventuallyMirrorsRows ==
    (<>[][~WriteStep]_vars) => <>[](qdrant.points = EmbeddedClauses)

(***************************************************************************)
(* Properties of the ranking                                               *)
(***************************************************************************)
\* of a citation: the raw vector score of its clause among the hits the
\* ranking read, and the lexical score of its clause for the query text
CitedVectorScore(citation) == VectorScore(Ret.vector_hits, citation.clause_id)
CitedLexicalScore(citation) ==
    LexicalScore(call.query_text,
                 [tokens |-> UNION { c.tokens : c \in { x \in clauses :
                                                          x.id = citation.clause_id } }])
\* 0.75 * vector + 0.20 * lexical + risk boost, in units of 1e-6
WeightedScore(citation) ==
    75 * CitedVectorScore(citation) + 20 * CitedLexicalScore(citation)
        + (IF citation.risk_level = "HIGH" THEN 50000
           ELSE IF citation.risk_level = "MEDIUM" THEN 20000 ELSE 0)
TiedButForRisk(a, b) ==
    /\ CitedVectorScore(a) = CitedVectorScore(b)
    /\ CitedLexicalScore(a) = CitedLexicalScore(b)

\* C17: without rerank the citations carry the raw vector scores of the
\* tier that produced them, in descending order; with rerank they carry
\* 0.75*vector + 0.20*lexical + risk boost (0.05 HIGH, 0.02 MEDIUM, 0
\* otherwise), in descending order, so that of two cited clauses tied on
\* vector and lexical score a HIGH one never comes after a MEDIUM or LOW one.
C17_RankingFollowsScores ==
    (Called("retrieve") /\ Ret.citations # <<>>) =>
        LET cits == Ret.citations
            pairs == { p \in (1..Len(cits)) \X (1..Len(cits)) : p[1] < p[2] }
        IN IF call.use_rerank
           THEN /\ \A i \in 1..Len(cits) : cits[i].score = Round4(WeightedScore(cits[i]))
                /\ \A p \in pairs : WeightedScore(cits[p[1]]) >= WeightedScore(cits[p[2]])
                /\ \A p \in pairs :
                      ~(/\ TiedButForRisk(cits[p[1]], cits[p[2]])
                        /\ cits[p[2]].risk_level = "HIGH"
                        /\ cits[p[1]].risk_level # "HIGH")
           ELSE /\ \A i \in 1..Len(cits) : cits[i].score = CitedVectorScore(cits[i])
                /\ \A p \in pairs :
                      CitedVectorScore(cits[p[1]]) >= CitedVectorScore(cits[p[2]])

\* a reranked answer whose first two citations are tied on vector and
\* lexical score, the HIGH one first and a LOW one second
C17_HighRiskWinsTie ==
    /\ Called("retrieve")
    /\ call.use_rerank
    /\ Len(Ret.citations) >= 2
    /\ TiedButForRisk(Ret.citations[1], Ret.citations[2])
    /\ Ret.citations[1].risk_level = "HIGH"
    /\ Ret.citations[2].risk_level = "LOW"
    /\ Ret.citations[1].clause_id > Ret.citations[2].clause_id

(***************************************************************************)
(* Properties of the adapter under concurrent calls                        *)
(***************************************************************************)
AllThreadsDone == \A t \in DOMAIN threads : threads[t].pc = "done"
\* the threads whose call holds the answer of _get_qdrant_client
ThreadsWithAnswer ==
    { t \in DOMAIN threads :
        threads[t].pc \notin {"check_client", "construct", "assign", "return_client"} }

\* the collection after the concurrent calls have ended: created with the
\* vector size of one of the calls, noted in the ensured set, indexed
CollectionEnsuredAtEnd ==
    /\ qdrant.exists
    /\ qdrant.size \in { threads[t].size : t \in DOMAIN threads }
    /\ GetQdrantCollectionName \in ensuredCollections
    /\ qdrant.payloadIndexes = {"user_id", "document_id"}

\* C18: when the concurrent calls of _ensure_qdrant_collection have ended,
\* the collection exists with the vector size of one of the calls, it is in
\* the ensured set, both payload indexes exist, and no call ended in the
\* error branch: the creator that lost the race is answered "already
\* exists" and takes that for success.
C18_ConcurrentEnsureSucceeds ==
    (AllThreadsDone /\ \E t \in DOMAIN threads : threads[t].client # NoClient) =>
        /\ CollectionEnsuredAtEnd
        /\ \A t \in DOMAIN threads : threads[t].outcome # "error_logged"

\* C19: the first use of the client by concurrent calls is an atomic
\* check-and-set: at most one client is ever constructed and every call
\* gets that one handle.
C19_OneClientForConcurrentCalls ==
    /\ clientHistory.built <= 1
    /\ \A t \in ThreadsWithAnswer :
          /\ threads[t].client # NoClient
          /\ \A u \in ThreadsWithAnswer : threads[u].client = threads[t].client

(***************************************************************************)
(* Properties of the collection                                            *)
(***************************************************************************)
\* a search whose vector has another size than the collection, the server
\* being up and having an answer for a search it accepts
SearchOfOtherSize ==
    /\ Called("search")
    /\ call.status # "no_client"
    /\ qdrant.exists
    /\ qdrant.size # call.size

\* C20: the vector size of the collection is the one of its first
\* creation: no upsert, search or client call recreates the collection or
\* changes its size afterwards; and a search whose vector has another size
\* returns no hits and does not raise.
C20_DimensionFixedAtCreation ==
    /\ [][qdrant.exists =>
             (qdrant'.exists /\ qdrant'.size = qdrant.size
                 /\ qdrant.points \subseteq qdrant'.points)]_vars
    /\ [](SearchOfOtherSize => (call.hits = <<>> /\ ~call.raised))

\* the server is up and would answer a hit, the collection was created for
\* vectors of size 2 and has a point, the search comes with size 3
C20_OtherSizeSearchedEmpty ==
    /\ SearchOfOtherSize
    /\ call.r = RemoteUp
    /\ call.answer # <<>>
    /\ call.size = 3
    /\ qdrant.points # {}
    /\ call.hits = <<>>
    /\ call.status = "search_error"


(***************************************************************************)
(* Threshold, fallback search and formatter                                *)
(***************************************************************************)
\* the tier whose candidates the ranking read
ProducingTier == IF Ret.tier2.queried THEN Ret.tier2 ELSE Ret.tier1
CitedClauseIds == { Ret.citations[i].clause_id : i \in 1..Len(Ret.citations) }
\* the candidates that are clauses of the caller's analyzed documents in
\* the scope of the call
FetchableCandidates ==
    { x.clause_id : x \in { y \in JoinedRowsOf({call.user_id}, {"done"}) :
                              /\ y.clause_id \in Ret.candidates
                              /\ call.document_id # NoId =>
                                    y.document_id = call.document_id } }

OddEmbeddings ==
    { [kind |-> "malformed", items |-> <<>>], [kind |-> "null", items |-> <<>>],
      [kind |-> "object", items |-> <<>>],
      [kind |-> "list_of_text", items |-> <<0, 0>>],
      [kind |-> "list_of_text", items |-> <<0, 0, 0>>],
      [kind |-> "list", items |-> <<>>],
      [kind |-> "list", items |-> <<1, 0, 0>>],
      [kind |-> "list", items |-> <<0, 0>>] }

RowLimits == {ScaledRowLimit, MAX_VECTOR_CANDIDATES}
FallbackCandidateKs == {1, 2, DEFAULT_CANDIDATE_K}
FallbackThresholds == {-ScoreOne, 0, DEFAULT_MIN_SIMILARITY, 5000}
\* the search is never called with an empty query vector (line 220)
FallbackQueryVectors == QueryVectors

\* every clause has a row; at most one row holds an odd text; the rows were
\* created in clause order or in the reverse order
InitFallback ==
    /\ InitDocuments
    /\ \E odd \in ClauseIds \cup {NoId}, json \in OddEmbeddings, reversed \in BOOLEAN :
          embeddings =
            { [EmbeddingRow(c, c) EXCEPT
                 !.embedding_json = IF c = odd THEN json ELSE @,
                 !.created_at = IF reversed THEN NClauses + 1 - c ELSE c] :
              c \in ClauseIds }
    /\ nextRowId = NClauses + 1
    /\ InitGlobals
    /\ call = Idle
    /\ threads = NoThreads

\* one call of the fallback search
FallbackSearch ==
    /\ call = Idle
    /\ \E row_limit \in RowLimits, u \in Users, d \in DocumentScopes,
          ck \in FallbackCandidateKs, m \in FallbackThresholds,
          q \in FallbackQueryVectors :
          call' = [op |-> "fallback", row_limit |-> row_limit, user_id |-> u,
                   document_id |-> d, candidate_k |-> ck, min_similarity |-> m,
                   query_embedding |-> q,
                   result |-> FallbackSearchWithin(row_limit, u, q, d, ck, m)]
    /\ UNCHANGED <<dbVars, embeddings, nextRowId, globalVars, threads>>

NextFallback == FallbackSearch
SpecFallback == InitFallback /\ [][NextFallback]_vars

\* the rows of the call's owner and scope, and those among them that are
\* within the row limit, newest first
ScopeRows ==
    { x \in embeddings : /\ x.user_id = call.user_id
                         /\ call.document_id # NoId => x.document_id = call.document_id }
WindowRows ==
    { x \in ScopeRows :
        Cardinality({ y \in ScopeRows : y.created_at > x.created_at }) < call.row_limit }
IsVector(json) == json.kind = "list"
\* the pairs the rows of S that hold a list of numbers give at the
\* threshold of the call
PairsOf(S) ==
    { [clause_id |-> x.clause_id,
       score |-> CosineSimilarity(call.query_embedding, x.embedding_json.items)] :
      x \in { y \in S : IsVector(y.embedding_json) } }
QualifyingPairs(S) == { p \in PairsOf(S) : p.score >= call.min_similarity }
ResultPairs == { call.result[i] : i \in 1..Len(call.result) }

C22_RowBeyondTheLimit ==
    /\ Called("fallback")
    /\ QualifyingPairs(ScopeRows \ WindowRows) # {}
    /\ Len(call.result) < call.candidate_k


\* the pairs of vectors _cosine_similarity has no similarity for
InvalidVectors(a, b) ==
    \/ a = <<>>
    \/ b = <<>>
    \/ Len(a) # Len(b)
    \/ Dot(a, a) = 0
    \/ Dot(b, b) = 0
\* the rows in scope that hold a list of numbers with no similarity to the
\* query of the call
InvalidRows ==
    { x \in ScopeRows : /\ IsVector(x.embedding_json)
                        /\ InvalidVectors(call.query_embedding, x.embedding_json.items) }
ResultClauseIds == { call.result[i].clause_id : i \in 1..Len(call.result) }

\* C23: _cosine_similarity gives exactly -1.0 when a vector is empty, the
\* lengths differ or a norm is zero, and a stored row whose vector is
\* invalid in this sense is never among the candidates of the fallback,
\* for every min_similarity in [-1, 1].
C23_InvalidVectorNeverReturned ==
    Called("fallback") =>
        /\ \A x \in InvalidRows :
              CosineSimilarity(call.query_embedding, x.embedding_json.items) = -ScoreOne
        /\ \A x \in InvalidRows : x.clause_id \notin ResultClauseIds

\* what holds of the invalid rows: the sentinel is exact, and they are
\* left out at every min_similarity above -1.0
InvalidVectorFilteredAboveSentinel ==
    Called("fallback") =>
        /\ \A x \in InvalidRows :
              CosineSimilarity(call.query_embedding, x.embedding_json.items) = -ScoreOne
        /\ call.min_similarity > -ScoreOne =>
              \A x \in InvalidRows : x.clause_id \notin ResultClauseIds


\* the rows in scope whose text gives no list of numbers
UnreadableRows == { x \in ScopeRows : ~IsVector(x.embedding_json) }
\* the candidates are the best pairs of the readable rows within the limit
ResultOfReadableRows ==
    /\ ResultPairs \subseteq QualifyingPairs(WindowRows)
    /\ Len(call.result) = Cardinality(ResultPairs)
    /\ Len(call.result) < call.candidate_k => QualifyingPairs(WindowRows) \subseteq ResultPairs
    /\ \A p \in QualifyingPairs(WindowRows) \ ResultPairs :
          \A i \in 1..Len(call.result) : p.score <= call.result[i].score

\* C24: a row whose embedding cannot be deserialized (malformed JSON, null,
\* not a list, non-numeric elements) is skipped, and the candidates are
\* exactly those computed from the remaining well-formed rows.
C24_UnreadableRowSkipped ==
    Called("fallback") =>
        /\ \A x \in UnreadableRows : x.clause_id \notin ResultClauseIds
        /\ ResultOfReadableRows

\* what holds of the unreadable rows: they are skipped unless they are a
\* list of another length than the query, which is scored -1.0 without its
\* elements being read, and returned at min_similarity -1.0
UnreadableRowSkippedUnlessOfOtherLength ==
    Called("fallback") =>
        \A x \in UnreadableRows :
            x.clause_id \in ResultClauseIds =>
                /\ x.embedding_json.kind = "list_of_text"
                /\ Len(x.embedding_json.items) # Len(call.query_embedding)
                /\ call.min_similarity = -ScoreOne


(***************************************************************************)
(* Order of the ranked rows                                                *)
(***************************************************************************)
\* the fused score of a cited clause before rounding, in units of 1e-6
ExactFusedScore(citation) ==
    IF call.use_rerank THEN WeightedScore(citation) ELSE 100 * CitedVectorScore(citation)
IsBlock(part) == part.kind = "block"
\* the clause ids of the blocks of the context, in order
ContextClauseIds ==
    LET blocks == SelectSeq(Ret.context, IsBlock)
    IN [i \in 1..Len(blocks) |-> blocks[i].clause_id]

\* C25: two fetched rows of exactly equal fused score keep the order of the
\* relational fetch (clause id order in the model) in the citations and in
\* the context, with and without rerank.
C25_TiesKeepFetchOrder ==
    (Called("retrieve") /\ Ret.citations # <<>>) =>
        /\ \A i, j \in 1..Len(Ret.citations) :
              (i < j /\ ExactFusedScore(Ret.citations[i]) = ExactFusedScore(Ret.citations[j]))
                  => Ret.citations[i].clause_id < Ret.citations[j].clause_id
        /\ ContextClauseIds = [i \in 1..Len(Ret.citations) |-> Ret.citations[i].clause_id]

\* a reranked answer citing two clauses of equal fused score
C25_TiedWithRerank ==
    /\ Called("retrieve")
    /\ call.use_rerank
    /\ Len(Ret.citations) >= 2
    /\ ExactFusedScore(Ret.citations[1]) = ExactFusedScore(Ret.citations[2])
    /\ Ret.citations[1].clause_id < Ret.citations[2].clause_id

\* an answer without rerank citing two clauses of equal vector score
C25_TiedWithoutRerank ==
    /\ Called("retrieve")
    /\ ~call.use_rerank
    /\ Len(Ret.citations) >= 2
    /\ ExactFusedScore(Ret.citations[1]) = ExactFusedScore(Ret.citations[2])
    /\ Ret.citations[1].clause_id < Ret.citations[2].clause_id


(***************************************************************************)
(* _format_context_rows as a function of its rows                          *)
(***************************************************************************)
RECURSIVE Arrangements(_)
\* the sequences of distinct elements of S, in every order
Arrangements(S) ==
    {<<>>} \cup UNION { { <<x>> \o t : t \in Arrangements(S \ {x}) } : x \in S }

\* the lists of rows the formatter is called with: joined rows of the
\* store in any order (the formatter reads neither owner nor status)
FormatInputs == Arrangements(JoinedRowsOf(Users, Statuses))

\* one call of _format_context_rows
Format ==
    /\ call = Idle
    /\ \E rows \in FormatInputs :
          call' = [op |-> "format", rows |-> rows, parts |-> FormatContextRows(rows)]
    /\ UNCHANGED <<dbVars, embeddings, nextRowId, globalVars, threads>>

NextFormat == Format
SpecFormat == Init /\ [][NextFormat]_vars

IsHeader(part) == part.kind = "header"
\* the rows of the call whose document differs from the row before
DocumentChanges ==
    { i \in 2..Len(call.rows) : call.rows[i].document_id # call.rows[i - 1].document_id }

\* C26: a header stands exactly before each row whose document differs
\* from the row before it and before the first row, the rows are not
\* re-sorted, so the headers number 1 + the adjacent document changes; for
\* no rows the result is the fixed sentinel, never empty.
C26_HeaderAtEachDocumentChange ==
    Called("format") =>
        IF call.rows = <<>> THEN call.parts = <<SentinelPart>>
        ELSE LET blocks == SelectSeq(call.parts, IsBlock)
                 headers == SelectSeq(call.parts, IsHeader)
             IN /\ Len(headers) = 1 + Cardinality(DocumentChanges)
                /\ Len(call.parts) = Len(blocks) + Len(headers)
                /\ blocks = [i \in 1..Len(call.rows) |->
                               [kind |-> "block",
                                document_id |-> call.rows[i].document_id,
                                clause_id |-> call.rows[i].clause_id]]
                /\ IsHeader(call.parts[1])
                /\ \A k \in 1..Len(call.parts) :
                      IsHeader(call.parts[k]) =>
                          /\ k < Len(call.parts)
                          /\ IsBlock(call.parts[k + 1])
                          /\ call.parts[k + 1].document_id = call.parts[k].document_id
                /\ \A k \in 2..Len(call.parts) :
                      (IsBlock(call.parts[k]) /\ IsBlock(call.parts[k - 1])) =>
                          call.parts[k].document_id = call.parts[k - 1].document_id

\* rows of one document around a row of another: the document's header
\* is emitted twice
C26_HeaderRepeated ==
    /\ Called("format")
    /\ Len(call.rows) = 3
    /\ call.rows[1].document_id = call.rows[3].document_id
    /\ call.rows[1].document_id # call.rows[2].document_id
    /\ Len(SelectSeq(call.parts, IsHeader)) = 3


(***************************************************************************)
(* Sequential calls of _ensure_qdrant_collection                           *)
(***************************************************************************)
\* what the server holds when the process starts: nothing, or the
\* collection an earlier process made, without or with its payload indexes
ServerStarts ==
    { NoCollection,
      [exists |-> TRUE, size |-> 2, payloadIndexes |-> {}, points |-> {}],
      [exists |-> TRUE, size |-> 2, payloadIndexes |-> {"user_id", "document_id"},
       points |-> {1}] }
EnsureSizes == {0, 2, 3}

InitEnsure ==
    /\ InitStore
    /\ qdrantClient = NoClient
    /\ qdrantImportFailed = FALSE
    /\ ensuredCollections = {}
    /\ indexedFields = {}
    /\ qdrantImported = FALSE
    /\ qdrant \in ServerStarts
    /\ clientHistory = [failed |-> FALSE, built |-> 0]
    /\ call = Idle
    /\ threads = NoThreads

\* a call of _ensure_qdrant_collection(vector_size), with the call of
\* _get_qdrant_client it begins with
Ensure ==
    /\ call = Idle
    /\ \E size \in EnsureSizes, e \in ClientEnvs, r \in RemoteBehaviours :
       \E got \in { GetQdrantClient(Globals, e) } :
       \E res \in { EnsureQdrantCollection(got.g, size, r) } :
          /\ SetGlobals(res)
          /\ call' = [op |-> "ensure", size |-> size, r |-> r,
                      ensured_before |-> ensuredCollections,
                      indexed_before |-> indexedFields,
                      qdrant_before |-> qdrant,
                      requests |-> EnsureRequests(got.g, size, r)]
    /\ UNCHANGED <<dbVars, embeddings, nextRowId, threads>>

NextEnsure == Ensure \/ Return
SpecEnsure == InitEnsure /\ [][NextEnsure]_vars

\* the call reached the server with a vector size, the collection not
\* being recorded as ensured
EnsureAsked ==
    /\ Called("ensure")
    /\ qdrantClient # NoClient
    /\ call.size > 0
    /\ GetQdrantCollectionName \notin call.ensured_before
EnsureConfirmed == call.r.list /\ (call.qdrant_before.exists \/ call.r.create)

\* C27: once a call has confirmed or created the collection, a later call
\* sends no request and leaves collection and payload indexes as they
\* are; a call that finds the collection present creates no collection and
\* records it as ensured; a call that could not confirm it records
\* nothing, so that the next call asks the server again.
C27_EnsureIsIdempotent ==
    Called("ensure") =>
        /\ GetQdrantCollectionName \in call.ensured_before =>
              /\ call.requests = <<>>
              /\ qdrant = call.qdrant_before
              /\ ensuredCollections = call.ensured_before
              /\ indexedFields = call.indexed_before
        /\ (EnsureAsked /\ EnsureConfirmed) =>
              /\ GetQdrantCollectionName \in ensuredCollections
              /\ qdrant.exists
        /\ (EnsureAsked /\ EnsureConfirmed /\ call.qdrant_before.exists) =>
              /\ \A i \in 1..Len(call.requests) : call.requests[i] # "create_collection"
              /\ qdrant.size = call.qdrant_before.size
              /\ qdrant.points = call.qdrant_before.points
        /\ (EnsureAsked /\ ~EnsureConfirmed) =>
              /\ ensuredCollections = call.ensured_before
              /\ indexedFields = call.indexed_before
              /\ qdrant = call.qdrant_before
              /\ EnsureRequests(Globals, call.size, RemoteUp) # <<>>

\* a call with a working server and another vector size after the
\* collection was ensured: nothing is sent
C27_LaterCallSendsNothing ==
    /\ Called("ensure")
    /\ GetQdrantCollectionName \in call.ensured_before
    /\ call.r = RemoteUp
    /\ call.size > 0
    /\ call.size # qdrant.size
    /\ call.requests = <<>>

\* a call that could not confirm the collection, after which the next call
\* asks again
C27_FailedCallRecordsNothing ==
    /\ EnsureAsked
    /\ ~EnsureConfirmed
    /\ ensuredCollections = {}


(***************************************************************************)
(* Degradation to the relational search                                    *)
(***************************************************************************)
\* the analyzed clauses of the caller's done documents in the scope of the
\* call whose stored vector is similar enough to the query vector
MatchingClauses ==
    { x \in { y \in JoinedRowsOf({call.user_id}, {"done"}) :
                call.document_id # NoId => y.document_id = call.document_id } :
        \E row \in embeddings :
           /\ row.clause_id = x.clause_id
           /\ row.user_id = call.user_id
           /\ row.embedding_json.kind = "list"
           /\ CosineSimilarity(call.provider_vector, row.embedding_json.items)
                 >= Ret.tier1.threshold }
\* the index was asked with the query vector of the provider
IndexAsked == Called("retrieve") /\ Ret.query_dim > 0 /\ Ret.tier1.queried

\* C28: when the caller has an analyzed clause in a done document whose
\* stored vector is among the rows the fallback reads and is at least
\* min_similarity close to the query vector, the call returns citations,
\* whatever the index answered.
C28_MatchingClauseIsCited ==
    (IndexAsked /\ MatchingClauses # {}) => Ret.citations # <<>>

\* what holds: a call that returns cites a clause unless the tier that
\* answered gave candidates none of which is a clause of the caller's done
\* documents in scope; the other tier or the other rows are not consulted
\* then
MatchingClauseCitedUnlessCandidatesMislead ==
    (IndexAsked /\ ~Ret.raised /\ MatchingClauses # {}) =>
        \/ Ret.citations # <<>>
        \/ /\ Ret.candidates # {}
           /\ FetchableCandidates = {}


(***************************************************************************)
(* Repeated and concurrent backfills                                       *)
(***************************************************************************)
\* the clauses a backfill of the call's owner and scope would visit now
MissingNow ==
    { x.clause_id : x \in { y \in JoinedRows(call.user_id) :
                              /\ ~\E z \in embeddings : z.clause_id = y.clause_id
                              /\ call.document_id # NoId =>
                                    y.document_id = call.document_id } }
\* a second backfill of the same owner and scope, run now, returns 0 and
\* leaves the rows as they are, whatever provider and index do
SecondBackfillDoesNothing ==
    \A p \in NewClauseProviderAnswers, ix \in IngestIndexEnvs :
        \E second \in { BackfillEmbeddings(Globals, Session, call.user_id,
                                           call.document_id,
                                           [c \in MissingNow |-> p], ix.e, ix.r) } :
            /\ second.status = 200
            /\ second.count = 0
            /\ second.db.embeddings = embeddings
\* the backfill of the call left the rows it found as they were and wrote
\* rows only for its owner's clauses that had none
BackfillWroteOnlyMissingRows ==
    /\ call.rows_before \subseteq embeddings
    /\ \A x \in embeddings \ call.rows_before :
          /\ x.user_id = call.user_id
          /\ x.clause_id \in call.missing
          /\ ~\E y \in call.rows_before : y.clause_id = x.clause_id

\* C29: after a committed backfill a second backfill of the same owner and
\* scope returns 0 and changes no row, and a backfill never creates,
\* updates or deletes a row of another owner or of a clause that had a row.
C29_BackfillIsIdempotent ==
    (Called("backfill") /\ call.status = 200) =>
        /\ SecondBackfillDoesNothing
        /\ BackfillWroteOnlyMissingRows

\* what holds: the rows are touched as claimed, and the second run does
\* nothing when the provider gave the first run a vector for every clause
BackfillIsIdempotentWhenEmbedded ==
    (Called("backfill") /\ call.status = 200) =>
        /\ BackfillWroteOnlyMissingRows
        /\ (\A c \in call.missing : call.ps[c].vector # <<>>) => SecondBackfillDoesNothing


\* One request of POST /api/analyze/backfill-embeddings per thread, each on
\* a session of its own (get_db): the query of backfill_user_embeddings,
\* one upsert_clause_embedding per row, and the commit of get_db.  A
\* session's writes stay in the session until its commit (inserts,
\* updates); the other sessions read the committed rows.  What a session
\* reads after another one committed depends on the isolation level of the
\* database: the rows as of its first query (snapshot) or the rows
\* committed by now.  The provider answers every text with a vector.
BackfillStart(user_id) ==
    [pc |-> "query", user_id |-> user_id, rows |-> <<>>, snapshot |-> {},
     inserts |-> {}, updates |-> {}, status |-> 0, count |-> 0]

\* no clause has a row yet; both requests are of one owner
InitBackfills ==
    /\ InitDocuments
    /\ embeddings = {}
    /\ nextRowId = NClauses + 1
    /\ InitGlobals
    /\ call = Idle
    /\ \E u \in Users : threads = [t \in Threads |-> BackfillStart(u)]

\* rows = query.all() of backfill_user_embeddings
BackfillQueryStep(t) ==
    /\ threads[t].pc = "query"
    /\ threads' = [threads EXCEPT
                     ![t].rows = BackfillRows(threads[t].user_id, NoId),
                     ![t].snapshot = embeddings,
                     ![t].pc = IF BackfillRows(threads[t].user_id, NoId) = <<>>
                               THEN "commit" ELSE "upsert"]
    /\ UNCHANGED <<dbVars, embeddings, nextRowId, globalVars, call>>

\* one turn of the loop: upsert_clause_embedding for the next row
BackfillUpsertStep(t) ==
    /\ threads[t].pc = "upsert"
    /\ \E view \in {threads[t].snapshot, embeddings} :
       \E row \in { Head(threads[t].rows) } :
       \E existing \in { ExistingEmbedding(view, row.clause_id) } :
       \E indexed \in { UpsertQdrantClause(Globals, row.clause_id, DefaultQueryVector,
                                           "ok", RemoteUp) } :
          /\ threads' = [threads EXCEPT
                ![t].updates = @ \cup
                    { [x EXCEPT !.embedding_json = JsonDumps(DefaultQueryVector),
                                !.user_id = threads[t].user_id,
                                !.document_id = row.document_id] : x \in existing },
                ![t].inserts = @ \cup
                    IF existing # {} THEN {}
                    ELSE { [id |-> nextRowId, clause_id |-> row.clause_id,
                            user_id |-> threads[t].user_id,
                            document_id |-> row.document_id,
                            embedding_json |-> JsonDumps(DefaultQueryVector),
                            created_at |-> nextRowId] },
                ![t].count = @ + 1,
                ![t].rows = Tail(@),
                ![t].pc = IF Tail(threads[t].rows) = <<>> THEN "commit" ELSE "upsert"]
          /\ nextRowId' = IF existing # {} THEN nextRowId ELSE nextRowId + 1
          /\ SetGlobals(indexed.g)
    /\ UNCHANGED <<dbVars, embeddings, call>>

\* db.commit() of get_db: the unique index on clause_id refuses the flush
\* when another session has committed a row of a clause this one inserts;
\* the session is rolled back and the request fails
BackfillCommitStep(t) ==
    /\ threads[t].pc = "commit"
    /\ IF CommitRaises([embeddings |-> embeddings \cup threads[t].inserts])
       THEN /\ threads' = [threads EXCEPT ![t].pc = "done", ![t].status = 500,
                                          ![t].inserts = {}, ![t].updates = {}]
            /\ UNCHANGED embeddings
       ELSE /\ threads' = [threads EXCEPT ![t].pc = "done", ![t].status = 200]
            /\ embeddings' =
                 { x \in embeddings : ~\E y \in threads[t].updates : y.id = x.id }
                    \cup threads[t].updates \cup threads[t].inserts
    /\ UNCHANGED <<dbVars, nextRowId, globalVars, call>>

NextBackfills ==
    \E t \in Threads :
        \/ BackfillQueryStep(t)
        \/ BackfillUpsertStep(t)
        \/ BackfillCommitStep(t)

SpecBackfills == InitBackfills /\ [][NextBackfills]_vars

\* the clauses the requests are to embed
ClausesToEmbed ==
    UNION { { x.clause_id : x \in JoinedRows(threads[t].user_id) } : t \in DOMAIN threads }
OneRowPerClauseToEmbed ==
    \A c \in ClausesToEmbed : Cardinality({ x \in embeddings : x.clause_id = c }) = 1

\* C30: two concurrent backfill requests of one owner over the same
\* clauses without rows end, in every interleaving, with exactly one row
\* per clause and with both requests completed without error.
C30_ConcurrentBackfillsSucceed ==
    AllThreadsDone =>
        /\ OneRowPerClauseToEmbed
        /\ \A t \in DOMAIN threads : threads[t].status = 200

\* what holds: every clause ends with one row and the first request to
\* commit succeeds
ConcurrentBackfillsLeaveOneRow ==
    AllThreadsDone =>
        /\ OneRowPerClauseToEmbed
        /\ \E t \in DOMAIN threads : threads[t].status = 200

====
